---------------------------- MODULE Spec2Model ----------------------------
(***************************************************************************)
(* Model of the nrsr-dochadzka pipeline:                                   *)
(*   - the raw store and the collection state file (pipelines.py),         *)
(*   - the incremental listing spider (spiders/votes.py),                  *)
(*   - the index-driven detail spider (spiders/vote_details.py),           *)
(*   - the vote-index shard pipeline (pipelines.VoteIndexJsonlPipeline),   *)
(*   - the backfill crawl of the result grids (spiders/vote_index.py),     *)
(*   - process_votes (processing.py) and build_site_data (site_data.py).   *)
(*                                                                         *)
(* Twelve specifications share the module:                                 *)
(*   Spec         RawJsonPipeline fed arbitrary items, run after run;      *)
(*   SpecAtomic   _atomic_write one file-system operation at a time, with  *)
(*                the process killed between any two of them;              *)
(*   SpecVotes    VotesSpider runs (incremental or forced) with fetches    *)
(*                that may fail terminally;                                *)
(*   SpecDetails  VoteDetailsSpider runs over the index shards;            *)
(*   SpecIndex    the vote-index shard pipeline;                           *)
(*   SpecBackfill the pages of the result grid of each meeting;            *)
(*   SpecProcess  process_votes, one write at a time, on a raw directory   *)
(*                that changes between the calls, killed at any point;     *)
(*   SpecSite     process_votes and then build_site_data, a term at a      *)
(*                time, over a family of raw directories;                  *)
(*   SpecSiteTerms   the same with builds that are given explicit terms;   *)
(*   SpecSitePages   the same with builds that write the vote pages;       *)
(*   SpecSiteInputs  builds between calls of process_votes that return     *)
(*                or are killed;                                           *)
(*   SpecClubKeys build_club_keys on the sets of club labels.              *)
(***************************************************************************)
EXTENDS Integers, Sequences, FiniteSets, Bags, TLC

VARIABLES
    fs,           \* the files under data/raw: path -> content (existing files only)
    dirs,         \* the directories under data/raw that exist
    maxVoteId,    \* RawJsonPipeline._max_vote_id
    phase,        \* where the collecting process is
    wr,           \* the _atomic_write call in progress
    last,         \* history: the last handler call, its item's file and the maximum before it
    runStart,     \* history: what _state.json held when the run opened
    processed,    \* history: int(vote_id) of the vote items validated in the run
    spider,       \* the running spider's attributes
    pending,      \* the detail requests scheduled and not yet downloaded
    cursor,       \* VoteDetailsSpider.start: position of the generator
    hist,         \* history of the collection runs
    index,        \* the shard files under data/raw/vote_index
    idxBuf,       \* the vote-index pipeline's in-memory shards
    idxLog,       \* history: the vote-index items ingested, by finished runs and by this one
    grid,         \* backfill: the result-grid crawl of each (term, meeting)
    rawDir,       \* the raw vote files process_votes reads: file name -> payload
    outDir,       \* the processed directory: file name -> content (existing files only)
    proc,         \* the process_votes call in progress: its position and its tables
    procLog,      \* history: the calls of process_votes that returned
    siteDir,      \* the site data directory: file name -> payload
    siteRun       \* the build_site_data call in progress

storeVars == <<fs, dirs, maxVoteId, phase, wr, last, runStart, processed>>
collectVars == <<spider, pending, cursor, hist>>
indexVars == <<index, idxBuf, idxLog>>
backfillVars == <<grid>>
processVars == <<rawDir, outDir, proc, procLog>>
siteVars == <<siteDir, siteRun>>
otherVars == <<backfillVars, processVars, siteVars>>
vars == <<fs, dirs, maxVoteId, phase, wr, last, runStart, processed,
          spider, pending, cursor, hist, index, idxBuf, idxLog,
          grid, rawDir, outDir, proc, procLog, siteDir, siteRun>>

----------------------------------------------------------------------------
(* Bounds and input sets *)

\* vote ids met on listing pages, in index shards and in items are 1..MaxVoteId
MaxVoteId == 2

\* Python's None where an int is expected
None == -1

\* what distinguishes two fetches of the same vote (fetched_at_utc, mp_votes, ...)
Payloads == {"p1", "p2"}

\* datetime.now(UTC) at the moment the state is written
Times == {"t1", "t2"}

Max(S) == CHOOSE x \in S : \A y \in S : y <= x

----------------------------------------------------------------------------
(* Text: a string is a sequence of characters; LF is the newline character *)

Digits == <<"0", "1", "2", "3", "4", "5", "6", "7", "8", "9">>
LF == "LF"

IsDigit(c) == \E i \in 1..10 : Digits[i] = c
DigitVal(c) == (CHOOSE i \in 1..10 : Digits[i] = c) - 1

RECURSIVE IntToStr(_)
\* str(n) of an int n >= 0
IntToStr(n) ==
    IF n < 10 THEN <<Digits[n + 1]>>
    ELSE IntToStr(n \div 10) \o <<Digits[(n % 10) + 1]>>

RECURSIVE DigitsToInt(_)
DigitsToInt(s) ==
    IF s = <<>> THEN 0
    ELSE 10 * DigitsToInt(SubSeq(s, 1, Len(s) - 1)) + DigitVal(s[Len(s)])

RECURSIVE Strip(_)
\* str.strip() as int() applies it: leading and trailing whitespace removed
Strip(s) ==
    IF s # <<>> /\ s[Len(s)] = LF THEN Strip(SubSeq(s, 1, Len(s) - 1))
    ELSE IF s # <<>> /\ s[1] = LF THEN Strip(Tail(s))
    ELSE s

\* int(text) of a text VoteIdReMatch accepts
PyInt(s) == DigitsToInt(Strip(s))

\* _VOTE_ID_RE.match(text) for ^[0-9]+$ : one or more digits from the start,
\* then the end of the text; $ also matches just before one trailing newline
VoteIdReMatch(s) ==
    \E k \in 1..Len(s) :
        /\ \A i \in 1..k : IsDigit(s[i])
        /\ \/ k = Len(s)
           \/ k = Len(s) - 1 /\ s[Len(s)] = LF

----------------------------------------------------------------------------
(* Items handed to RawJsonPipeline.process_item *)

\* the value under the item's "vote_id" key: absent/None, an int or a text
PyNone == [py |-> "none", s |-> <<>>]
PyIntV(n) == [py |-> "int", s |-> IntToStr(n)]
PyStrV(s) == [py |-> "str", s |-> s]

VoteItem(v, force, payload) ==
    [kind |-> "vote", vote_id |-> v, force_overwrite |-> force, payload |-> payload]

OtherItem == [kind |-> "vote_index", vote_id |-> PyIntV(1),
              force_overwrite |-> FALSE, payload |-> "p1"]

\* the vote item parse_vote yields for vote v (votes.py, item = {...})
ParsedVoteItem(v, force, payload) == VoteItem(PyIntV(v), force, payload)

GoodVoteIds == {PyIntV(n) : n \in 1..MaxVoteId}
OddVoteIds == {PyNone, PyIntV(0), PyStrV(<<"a">>), PyStrV(<<"1", LF>>)}

Items ==
    {VoteItem(v, f, p) : v \in GoodVoteIds, f \in BOOLEAN, p \in Payloads}
    \cup {VoteItem(v, FALSE, "p1") : v \in OddVoteIds}
    \cup {VoteItem(PyStrV(<<"1", LF>>), TRUE, "p2"), OtherItem}

\* vote_id = str(item.get("vote_id") or "")
ItemVoteIdStr(item) ==
    IF item.vote_id.py = "none" THEN <<>>
    ELSE IF item.vote_id.py = "int" /\ item.vote_id.s = <<"0">> THEN <<>>
    ELSE item.vote_id.s

ItemIsVote(item) == item.kind = "vote"
ItemValid(item) == VoteIdReMatch(ItemVoteIdStr(item))
ItemVoteIdInt(item) == PyInt(ItemVoteIdStr(item))

----------------------------------------------------------------------------
(* Paths and files under data/raw *)

VotePath(idText) == [dir |-> "votes", stem |-> idText, suffix |-> <<".json">>]
StatePath == [dir |-> "raw", stem |-> <<"_state">>, suffix |-> <<".json">>]
ItemPath_Same(item) == VotePath(<<"1">>)

\* out_path = .../"votes"/f"{vote_id}.json"
ItemPath(item) == VotePath(ItemVoteIdStr(item))

TmpPath_Same(path) == path

\* tmp_path = path.with_suffix(path.suffix + ".tmp")
TmpPath(path) == [path EXCEPT !.suffix = Append(path.suffix, ".tmp")]

IsTmp(path) == path.suffix[Len(path.suffix)] = ".tmp"

\* a file's content: the text written, complete or cut short
Whole(text) == [complete |-> TRUE, text |-> text]
Partial(text) == [complete |-> FALSE, text |-> text]

Exists(f, path) == path \in DOMAIN f

\* what a reader finds at a path: <<>> when there is no file, else <<content>>
FileAt(f, path) == IF Exists(f, path) THEN <<f[path]>> ELSE <<>>

\* path.parent.mkdir(parents=True, exist_ok=True)
Mkdir(d, path) == d \cup (IF path.dir = "votes" THEN {"raw", "votes"} ELSE {"raw"})

\* tmp_path.write_text(text): the file is opened (created or truncated) ...
OpenTmp(f, path, text) == (TmpPath(path) :> Partial(text)) @@ f

\* ... and holds the whole text once write_text returns
WriteTmp(f, path, text) == (TmpPath(path) :> Whole(text)) @@ f

\* tmp_path.replace(path): one atomic rename
Replace(f, path) ==
    LET t == TmpPath(path) IN
    IF t = path THEN f
    ELSE [q \in (DOMAIN f \cup {path}) \ {t} |-> IF q = path THEN f[t] ELSE f[q]]

\* _atomic_write(path, text) run to its end
AtomicWrite(f, path, text) ==
    Replace(WriteTmp(OpenTmp(f, path, text), path, text), path)

----------------------------------------------------------------------------
(* The collection state file *)

NoVotesState == [last_seen_id |-> None, updated_at_utc |-> "none"]

\* _read_state(): the default when the file is missing, else the file's JSON
ReadState(f) ==
    IF ~Exists(f, StatePath) THEN [schema_version |-> 1, votes |-> NoVotesState]
    ELSE f[StatePath].text

\* int(votes.get("last_seen_id") or 0)
LastSeenOfVotes(votes) == IF votes.last_seen_id = None THEN 0 ELSE votes.last_seen_id

\* the last_seen_id a reader finds in a state file's content (0 when there is none)
LastSeenOfFile(f) == LastSeenOfVotes(ReadState(f).votes)

\* VotesSpider._load_last_seen_id(): 0 when the file is missing or is not JSON
LoadLastSeenId(f) ==
    IF ~Exists(f, StatePath) THEN 0
    ELSE IF ~f[StatePath].complete THEN 0
    ELSE LastSeenOfVotes(f[StatePath].text.votes)

AdvanceLastSeen_Always(votes, maxId) == [votes EXCEPT !.last_seen_id = maxId]

\* if self._max_vote_id > last_seen: votes["last_seen_id"] = self._max_vote_id
AdvanceLastSeen(votes, maxId) ==
    IF maxId > LastSeenOfVotes(votes) THEN [votes EXCEPT !.last_seen_id = maxId]
    ELSE votes

\* the state _on_spider_closed hands to _write_state, with schema_version set
ClosedState(state, maxId, now) ==
    [schema_version |-> 1,
     votes |-> [AdvanceLastSeen(state.votes, maxId) EXCEPT !.updated_at_utc = now]]

WritesState_AnyReason(reason, maxId) == maxId # None

\* _on_spider_closed goes on to write only if reason == "finished" and an item was seen
WritesState(reason, maxId) == reason = "finished" /\ maxId # None

----------------------------------------------------------------------------
(* RawJsonPipeline *)

NextMax_Last(maxId, n) == n

\* self._max_vote_id after an item with int(vote_id) = n
NextMax(maxId, n) == IF maxId = None THEN n ELSE Max({maxId, n})

SkipWrite_Never(f, item) == FALSE

\* if out_path.exists() and not item.get("force_overwrite"): return item
SkipWrite(f, item) == Exists(f, ItemPath(item)) /\ ~item.force_overwrite

\* the store after process_item(item)
StoreAfterItem(f, item) ==
    IF ~ItemIsVote(item) \/ ~ItemValid(item) \/ SkipWrite(f, item) THEN f
    ELSE AtomicWrite(f, ItemPath(item), item)

NoWrite == [pc |-> "none", path |-> StatePath, text |-> <<>>, prev |-> <<>>]
NoCall == [op |-> "none", item |-> OtherItem, outcome |-> "none",
           before |-> <<>>, maxBefore |-> None, reason |-> "none"]
CloseReasons == {"finished", "cancelled", "shutdown"}

\* from_crawler: a new pipeline for the run that opens
PipelineOpen ==
    /\ phase \in {"idle", "closed", "killed"}
    /\ phase' = "open"
    /\ maxVoteId' = None
    /\ runStart' = FileAt(fs, StatePath)
    /\ processed' = {}
    /\ last' = NoCall
    /\ UNCHANGED <<fs, dirs, wr>>

\* RawJsonPipeline.process_item(item), the whole call
PipelineItem(item) ==
    /\ phase = "open"
    /\ phase' = phase
    /\ UNCHANGED <<wr, runStart>>
    /\ IF ~ItemIsVote(item) THEN
            /\ last' = [NoCall EXCEPT !.op = "process_item", !.item = item,
                                      !.outcome = "returned"]
            /\ UNCHANGED <<fs, dirs, maxVoteId, processed>>
       ELSE IF ~ItemValid(item) THEN
            /\ last' = [NoCall EXCEPT !.op = "process_item", !.item = item,
                                      !.outcome = "raised",
                                      !.before = FileAt(fs, ItemPath(item)),
                                      !.maxBefore = maxVoteId]
            /\ UNCHANGED <<fs, dirs, maxVoteId, processed>>
       ELSE
            /\ maxVoteId' = NextMax(maxVoteId, ItemVoteIdInt(item))
            /\ processed' = processed \cup {ItemVoteIdInt(item)}
            /\ last' = [NoCall EXCEPT !.op = "process_item", !.item = item,
                                      !.outcome = "returned",
                                      !.before = FileAt(fs, ItemPath(item)),
                                      !.maxBefore = maxVoteId]
            /\ fs' = StoreAfterItem(fs, item)
            /\ dirs' = IF SkipWrite(fs, item) THEN dirs ELSE Mkdir(dirs, ItemPath(item))

\* RawJsonPipeline._on_spider_closed(spider, reason), the whole call
PipelineClosed(reason) ==
    /\ phase = "open"
    /\ phase' = "closed"
    /\ last' = [NoCall EXCEPT !.op = "spider_closed", !.reason = reason,
                              !.outcome = "returned"]
    /\ UNCHANGED <<maxVoteId, wr, runStart, processed>>
    /\ IF WritesState(reason, maxVoteId) THEN
            \E now \in Times :
                /\ fs' = AtomicWrite(fs, StatePath,
                                     ClosedState(ReadState(fs), maxVoteId, now))
                /\ dirs' = Mkdir(dirs, StatePath)
       ELSE UNCHANGED <<fs, dirs>>

\* the process is killed between two handlers: no handler runs, memory is lost
PipelineKilled ==
    /\ phase = "open"
    /\ phase' = "killed"
    /\ maxVoteId' = None
    /\ UNCHANGED <<fs, dirs, wr, last, runStart, processed>>

----------------------------------------------------------------------------
(* Spec: the pipeline fed arbitrary items, run after run *)

StoreInit ==
    /\ fs = <<>>
    /\ dirs = {}
    /\ maxVoteId = None
    /\ phase = "idle"
    /\ wr = NoWrite
    /\ last = NoCall
    /\ runStart = <<>>
    /\ processed = {}

NoSpider == [name |-> "none", force |-> FALSE, last_seen_id |-> 0,
             terms |-> {}, meetings |-> {}, stage |-> "none"]
NoHist == [discovered |-> {}, page |-> {}, yielded |-> {}, issued |-> {},
           startFiles |-> {}, incrementalOnly |-> TRUE]

CollectIdle ==
    /\ spider = NoSpider
    /\ pending = EmptyBag
    /\ cursor = 0
    /\ hist = NoHist

NoIndexLog == [done |-> <<>>, run |-> <<>>]

IndexIdle ==
    /\ index = <<>>
    /\ idxBuf = <<>>
    /\ idxLog = NoIndexLog

BackfillIdle == grid = <<>>

\* no call of process_votes in progress
NoProc == [pc |-> "idle", raw |-> <<>>, raw_vote_files |-> 0, votes_df |-> <<>>,
           mp_votes_df |-> <<>>, todo |-> <<>>, shards_index |-> <<>>]

NoProcLog == [started |-> 0, raised |-> 0, done |-> <<>>]

ProcessIdle ==
    /\ rawDir = <<>>
    /\ outDir = <<>>
    /\ proc = NoProc
    /\ procLog = NoProcLog

\* no call of build_site_data is running; nulls_first tells where the polars
\* build puts nulls in a descending sort
\* terms = None, the default of build_site_data
NoTerms == [given |-> FALSE, list |-> <<>>]

NoSite == [pc |-> "idle", terms |-> NoTerms, include_vote_pages |-> FALSE,
           todo |-> <<>>, generated_at_utc |-> "",
           nulls_first |-> TRUE, started |-> 0, raised |-> 0, done |-> <<>>]

SiteIdle ==
    /\ siteDir = <<>>
    /\ siteRun = NoSite

OtherIdle == BackfillIdle /\ ProcessIdle /\ SiteIdle

Init == StoreInit /\ CollectIdle /\ IndexIdle /\ OtherIdle

OpenSpider == PipelineOpen /\ UNCHANGED <<collectVars, indexVars, otherVars>>
ProcessItem == \E item \in Items : PipelineItem(item) /\ UNCHANGED <<collectVars, indexVars, otherVars>>
SpiderClosed == \E r \in CloseReasons : PipelineClosed(r) /\ UNCHANGED <<collectVars, indexVars, otherVars>>
Killed == PipelineKilled /\ UNCHANGED <<collectVars, indexVars, otherVars>>

Next == OpenSpider \/ ProcessItem \/ SpiderClosed \/ Killed

Spec == Init /\ [][Next]_vars

----------------------------------------------------------------------------
(* Claims checked under Spec *)

LastWasVoteItem == last.op = "process_item" /\ ItemIsVote(last.item)

\* the last_seen_id _state.json held when the run opened (0 when it was missing)
LastSeenAtOpen == IF runStart = <<>> THEN 0 ELSE LastSeenOfVotes(runStart[1].text.votes)

\* C1: process_item on a vote item whose raw file exists, force_overwrite not
\* set, leaves the file's content as it was; and after a non-forced
\* process_item, the same call again gives the same store.
C1_NonForcedKeepsFile ==
    (LastWasVoteItem /\ ~last.item.force_overwrite) =>
        /\ last.before # <<>> => FileAt(fs, ItemPath(last.item)) = last.before
        /\ StoreAfterItem(StoreAfterItem(fs, last.item), last.item) = fs

\* a non-forced item met a file that holds another fetch of the same vote
C1_Witness ==
    /\ LastWasVoteItem /\ ~last.item.force_overwrite
    /\ last.before # <<>>
    /\ last.before[1].text # last.item

\* C2: the last_seen_id held by _state.json never decreases from one step to
\* the next (a missing file reads as 0).
C2_LastSeenNeverDecreases == [][LastSeenOfFile(fs') >= LastSeenOfFile(fs)]_vars

\* a finished run whose items were all below the stored last_seen_id
C2_Witness ==
    /\ phase = "closed" /\ last.reason = "finished"
    /\ processed # {}
    /\ Max(processed) < LastSeenAtOpen
    /\ LastSeenOfFile(fs) = LastSeenAtOpen

\* C3: _state.json is as it was when the run opened while the run is open
\* (whatever process_item calls were made), after the process is killed, and
\* after a close whose reason is not "finished".
C3_StateOnlyWrittenOnFinished ==
    (\/ phase \in {"open", "killed"}
     \/ phase = "closed" /\ last.reason # "finished")
        => FileAt(fs, StatePath) = runStart

\* a cancelled run that had seen a vote above the stored last_seen_id
C3_Witness ==
    /\ phase = "closed" /\ last.reason = "cancelled"
    /\ processed # {}
    /\ Max(processed) > LastSeenOfFile(fs)

\* C4: after a run that validated at least one vote item closes "finished",
\* _state.json exists and its last_seen_id is the larger of the value at the
\* run's opening and the largest vote id of the run.
C4_FinishedAdvancesToMax ==
    (phase = "closed" /\ last.reason = "finished" /\ processed # {}) =>
        /\ Exists(fs, StatePath)
        /\ LastSeenOfFile(fs) = Max({LastSeenAtOpen, Max(processed)})

\* a finished run with two vote ids, over an existing state file
C4_Witness ==
    /\ phase = "closed" /\ last.reason = "finished"
    /\ Cardinality(processed) >= 2
    /\ runStart # <<>>

\* a non-empty text of digits only
AllDigits(s) == s # <<>> /\ \A i \in 1..Len(s) : IsDigit(s[i])

\* C7: a vote item whose vote_id is not a non-empty all-digits text makes
\* process_item raise, with no raw file written and the batch maximum as before.
C7_BadVoteIdRaises ==
    (phase = "open" /\ LastWasVoteItem /\ ~AllDigits(ItemVoteIdStr(last.item))) =>
        /\ last.outcome = "raised"
        /\ FileAt(fs, ItemPath(last.item)) = last.before
        /\ maxVoteId = last.maxBefore

----------------------------------------------------------------------------
(* SpecAtomic: _atomic_write one file-system operation at a time, the        *)
(* process killed between any two of them, as called by process_item        *)
(* (votes/1.json) and by _write_state (_state.json)                         *)

AtomicItems ==
    {VoteItem(PyIntV(1), TRUE, p) : p \in Payloads} \cup {VoteItem(PyIntV(1), FALSE, "p1")}

\* the (path, text) of the _atomic_write calls open to the pipeline in store f
AtomicCalls(f) ==
    {<<ItemPath(item), item>> : item \in {i \in AtomicItems : ~SkipWrite(f, i)}}
    \cup {<<StatePath, ClosedState(ReadState(f), m, now)>> : m \in 1..MaxVoteId, now \in Times}

atomicRest == <<maxVoteId, phase, last, runStart, processed,
                spider, pending, cursor, hist, index, idxBuf, idxLog, otherVars>>

\* _atomic_write(path, text) is entered
AtomicBegin ==
    /\ wr.pc \in {"none", "done", "killed"}
    /\ \E call \in AtomicCalls(fs) :
        wr' = [pc |-> "mkdir", path |-> call[1], text |-> call[2],
               prev |-> FileAt(fs, call[1])]
    /\ UNCHANGED <<fs, dirs, atomicRest>>

\* path.parent.mkdir(parents=True, exist_ok=True)
AtomicMkdir ==
    /\ wr.pc = "mkdir"
    /\ dirs' = Mkdir(dirs, wr.path)
    /\ wr' = [wr EXCEPT !.pc = "open"]
    /\ UNCHANGED <<fs, atomicRest>>

\* write_text opens the temporary file and has written part of the text
AtomicOpenTmp ==
    /\ wr.pc = "open"
    /\ fs' = OpenTmp(fs, wr.path, wr.text)
    /\ wr' = [wr EXCEPT !.pc = "write"]
    /\ UNCHANGED <<dirs, atomicRest>>

\* write_text returns
AtomicWriteTmp ==
    /\ wr.pc = "write"
    /\ fs' = WriteTmp(fs, wr.path, wr.text)
    /\ wr' = [wr EXCEPT !.pc = "replace"]
    /\ UNCHANGED <<dirs, atomicRest>>

\* tmp_path.replace(path)
AtomicReplace ==
    /\ wr.pc = "replace"
    /\ fs' = Replace(fs, wr.path)
    /\ wr' = [wr EXCEPT !.pc = "done"]
    /\ UNCHANGED <<dirs, atomicRest>>

\* the process is killed inside _atomic_write
AtomicKilled ==
    /\ wr.pc \in {"mkdir", "open", "write", "replace"}
    /\ wr' = [wr EXCEPT !.pc = "killed"]
    /\ UNCHANGED <<fs, dirs, atomicRest>>

AtomicNext ==
    \/ AtomicBegin
    \/ AtomicMkdir
    \/ AtomicOpenTmp
    \/ AtomicWriteTmp
    \/ AtomicReplace
    \/ AtomicKilled

SpecAtomic == Init /\ [][AtomicNext]_vars

\* C6: no path other than a temporary one ever holds a text cut short, and
\* from the entry of _atomic_write on (killed or not) the target path holds
\* what it held before the call or the complete new text: the previous
\* content up to the rename, the new text after it.
C6_ReaderSeesWholeRecords ==
    /\ \A path \in DOMAIN fs : ~IsTmp(path) => fs[path].complete
    /\ wr.pc # "none" => FileAt(fs, wr.path) \in {wr.prev, <<Whole(wr.text)>>}
    /\ wr.pc \in {"mkdir", "open", "write", "replace"} => FileAt(fs, wr.path) = wr.prev
    /\ wr.pc = "done" => FileAt(fs, wr.path) = <<Whole(wr.text)>>

\* killed with the temporary file cut short, over an existing other record
C6_Witness ==
    /\ wr.pc = "killed"
    /\ wr.prev # <<>>
    /\ wr.prev # <<Whole(wr.text)>>
    /\ FileAt(fs, TmpPath(wr.path)) = <<Partial(wr.text)>>
    /\ FileAt(fs, wr.path) = wr.prev

----------------------------------------------------------------------------
(* SpecVotes: VotesSpider, the incremental collector *)

\* the vote ids a listing page can show
ListingPages == SUBSET (1..MaxVoteId)

VoteFile(v) == VotePath(IntToStr(v))

NewVotes_AtLeast(found, cutoff) == {v \in found : v >= cutoff}

\* new_votes = [v for v in found if v["vote_id"] > cutoff]
NewVotes(found, cutoff) == {v \in found : v > cutoff}

\* the meta of the requests VotesSpider.parse yields for a listing page
ParseRequests(found, force, lastSeen) ==
    LET cutoff == IF force THEN 0 ELSE lastSeen IN
    {[vote_id |-> v, force_overwrite |-> force] : v \in NewVotes(found, cutoff)}

\* VotesSpider.__init__ and the pipeline's from_crawler
StartVotes ==
    /\ PipelineOpen
    /\ \E force \in BOOLEAN :
        /\ spider' = [NoSpider EXCEPT !.name = "votes", !.force = force,
                                      !.last_seen_id = LoadLastSeenId(fs),
                                      !.stage = "listing"]
        /\ hist' = [hist EXCEPT !.page = {}, !.yielded = {},
                                !.incrementalOnly = hist.incrementalOnly /\ ~force]
    /\ pending' = EmptyBag
    /\ UNCHANGED <<cursor, indexVars, otherVars>>

\* VotesSpider.parse(response) on the listing page
ListingParsed ==
    /\ phase = "open" /\ spider.name = "votes" /\ spider.stage = "listing"
    /\ \E found \in ListingPages :
        LET reqs == ParseRequests(found, spider.force, spider.last_seen_id) IN
        /\ pending' = SetToBag(reqs)
        /\ hist' = [hist EXCEPT !.discovered = hist.discovered \cup found,
                                !.page = found, !.yielded = reqs]
    /\ spider' = [spider EXCEPT !.stage = "crawl"]
    /\ UNCHANGED <<storeVars, cursor, indexVars, otherVars>>

\* the listing page cannot be downloaded: parse is never called
ListingFailed ==
    /\ phase = "open" /\ spider.name = "votes" /\ spider.stage = "listing"
    /\ spider' = [spider EXCEPT !.stage = "failed"]
    /\ UNCHANGED <<storeVars, pending, cursor, hist, indexVars, otherVars>>

\* a detail page is downloaded: parse_vote yields its item, process_item takes it
FetchOk ==
    /\ phase = "open"
    /\ \E req \in BagToSet(pending), payload \in Payloads :
        /\ PipelineItem(ParsedVoteItem(req.vote_id, req.force_overwrite, payload))
        /\ pending' = pending (-) SetToBag({req})
    /\ UNCHANGED <<spider, cursor, hist, indexVars, otherVars>>

\* a detail page fails for good after its retries: no callback, the run goes on
FetchFailed ==
    /\ phase = "open"
    /\ \E req \in BagToSet(pending) : pending' = pending (-) SetToBag({req})
    /\ UNCHANGED <<storeVars, spider, cursor, hist, indexVars, otherVars>>

\* nothing is left to download: the engine closes the spider, reason "finished"
VotesFinished ==
    /\ spider.name = "votes" /\ spider.stage \in {"crawl", "failed"}
    /\ pending = EmptyBag
    /\ PipelineClosed("finished")
    /\ spider' = [spider EXCEPT !.stage = "closed"]
    /\ UNCHANGED <<pending, cursor, hist, indexVars, otherVars>>

\* the run is stopped early: the spider closes with another reason
RunStopped ==
    /\ \E r \in CloseReasons \ {"finished"} : PipelineClosed(r)
    /\ spider' = [spider EXCEPT !.stage = "closed"]
    /\ pending' = EmptyBag
    /\ UNCHANGED <<cursor, hist, indexVars, otherVars>>

\* the process is killed
RunKilled ==
    /\ PipelineKilled
    /\ spider' = [spider EXCEPT !.stage = "closed"]
    /\ pending' = EmptyBag
    /\ UNCHANGED <<cursor, hist, indexVars, otherVars>>

VotesNext ==
    \/ StartVotes
    \/ ListingParsed
    \/ ListingFailed
    \/ FetchOk
    \/ FetchFailed
    \/ VotesFinished
    \/ RunStopped
    \/ RunKilled

SpecVotes == Init /\ [][VotesNext]_vars

\* C8: while the run that parsed a listing page is open, the vote ids parse
\* asked for are: with force, every id of the page, each marked
\* force_overwrite; without force, exactly the ids of the page above the
\* last_seen_id held by _state.json, hence none when no id is above it.
C8_ParseFollowsNewVotes ==
    (phase = "open" /\ spider.name = "votes" /\ spider.stage = "crawl") =>
        LET ids == {r.vote_id : r \in hist.yielded} IN
        /\ spider.force =>
            /\ ids = hist.page
            /\ \A r \in hist.yielded : r.force_overwrite
        /\ ~spider.force =>
            /\ ids = {v \in hist.page : v > LastSeenOfFile(fs)}
            /\ (\A v \in hist.page : v <= LastSeenOfFile(fs)) => hist.yielded = {}

\* an incremental parse of a page with ids on both sides of a stored last_seen_id
C8_Witness ==
    /\ phase = "open" /\ spider.name = "votes" /\ spider.stage = "crawl"
    /\ ~spider.force
    /\ LastSeenOfFile(fs) > 0
    /\ \E v \in hist.page : v <= LastSeenOfFile(fs)
    /\ \E r \in hist.yielded : r.vote_id > LastSeenOfFile(fs)

\* C5: between incremental runs, every vote id seen on a parsed listing page
\* that is at most the last_seen_id of _state.json has its raw vote file.
C5_HighWaterMark ==
    (hist.incrementalOnly /\ phase \in {"closed", "killed"}) =>
        \A v \in hist.discovered :
            v <= LastSeenOfFile(fs) => Exists(fs, VoteFile(v))

----------------------------------------------------------------------------
(* SpecDetails: VoteDetailsSpider, the index-driven collector *)

\* one line of a shard file vote_index/<term_id>/<meeting_id>.jsonl
IndexEntry(v, title) == [vote_id |-> v, title |-> title]

\* the index the runs read: shard <<term_id, meeting_id>> -> its lines
DetailsIndex ==
    (<<8, 1>> :> <<IndexEntry(1, "a")>>)
    @@ (<<9, 1>> :> <<IndexEntry(1, "a"), IndexEntry(2, "a")>>)
    @@ (<<9, 2>> :> [i \in 1..(MaxVoteId - 1) |-> IndexEntry(i + 1, "a")])

\* no vote_index directory, or the index above
IndexChoices == {<<>>, DetailsIndex}

\* _parse_int_set(terms), _parse_int_set(meetings): {} stands for None (no filter)
TermFilters == {{}, {8}, {9}}
MeetingFilters == {{}, {2}}

\* the order of sorted(index_root.glob("*/*.jsonl")) (names here are one digit long)
PathBefore(a, b) == a[1] < b[1] \/ (a[1] = b[1] /\ a[2] < b[2])

RECURSIVE ShardPaths(_)
ShardPaths(S) ==
    IF S = {} THEN <<>>
    ELSE LET k == CHOOSE k \in S : \A j \in S : j = k \/ PathBefore(k, j)
         IN <<k>> \o ShardPaths(S \ {k})

RECURSIVE RecordsOf(_, _)
\* the records the generator meets, shard after shard, line after line
RecordsOf(idx, paths) ==
    IF paths = <<>> THEN <<>>
    ELSE [i \in 1..Len(idx[Head(paths)]) |->
            [term |-> Head(paths)[1], meeting |-> Head(paths)[2],
             vote_id |-> idx[Head(paths)][i].vote_id]]
         \o RecordsOf(idx, Tail(paths))

IndexRecords(idx) == RecordsOf(idx, ShardPaths(DOMAIN idx))

ShardPasses_TermOnly(term, meeting, sp) == sp.terms = {} \/ term \in sp.terms

\* the two filter tests of start(): a shard outside a filter is skipped
ShardPasses(term, meeting, sp) ==
    /\ sp.terms = {} \/ term \in sp.terms
    /\ sp.meetings = {} \/ meeting \in sp.meetings

SkipExisting_Never(f, v, force) == FALSE

\* if out_path.exists() and not self._force: continue
SkipExisting(f, v, force) == Exists(f, VoteFile(v)) /\ ~force

\* VoteDetailsSpider.__init__ and the pipeline's from_crawler
StartDetails ==
    /\ PipelineOpen
    /\ \E force \in BOOLEAN, terms \in TermFilters, meetings \in MeetingFilters :
        spider' = [NoSpider EXCEPT !.name = "vote_details", !.force = force,
                                   !.last_seen_id = LoadLastSeenId(fs),
                                   !.terms = terms, !.meetings = meetings,
                                   !.stage = "start"]
    /\ hist' = [hist EXCEPT !.issued = {},
                            !.startFiles = {v \in 1..MaxVoteId : Exists(fs, VoteFile(v))},
                            !.incrementalOnly = FALSE]
    /\ pending' = EmptyBag
    /\ cursor' = 0
    /\ UNCHANGED <<indexVars, otherVars>>

\* start() is resumed by the engine and runs to its next record
DetailsNextRecord ==
    /\ phase = "open" /\ spider.name = "vote_details"
    /\ cursor < Len(IndexRecords(index))
    /\ cursor' = cursor + 1
    /\ LET rec == IndexRecords(index)[cursor + 1] IN
       IF /\ ShardPasses(rec.term, rec.meeting, spider)
          /\ ~SkipExisting(fs, rec.vote_id, spider.force)
       THEN /\ pending' = pending (+) SetToBag({[vote_id |-> rec.vote_id,
                                                 force_overwrite |-> spider.force]})
            /\ hist' = [hist EXCEPT !.issued = hist.issued \cup
                            {[vote_id |-> rec.vote_id,
                              existed |-> Exists(fs, VoteFile(rec.vote_id))]}]
       ELSE UNCHANGED <<pending, hist>>
    /\ UNCHANGED <<storeVars, spider, indexVars, otherVars>>

\* start() is exhausted and nothing is left to download: reason "finished"
DetailsFinished ==
    /\ spider.name = "vote_details" /\ spider.stage = "start"
    /\ cursor = Len(IndexRecords(index))
    /\ pending = EmptyBag
    /\ PipelineClosed("finished")
    /\ spider' = [spider EXCEPT !.stage = "closed"]
    /\ UNCHANGED <<pending, cursor, hist, indexVars, otherVars>>

DetailsInit ==
    /\ StoreInit
    /\ CollectIdle
    /\ index \in IndexChoices
    /\ idxBuf = <<>>
    /\ idxLog = NoIndexLog
    /\ OtherIdle

DetailsNext ==
    \/ StartDetails
    \/ DetailsNextRecord
    \/ FetchOk
    \/ FetchFailed
    \/ DetailsFinished
    \/ RunStopped
    \/ RunKilled

SpecDetails == DetailsInit /\ [][DetailsNext]_vars

\* the vote ids of the shards that pass the run's term and meeting filters
SelectedIds ==
    UNION {{index[k][i].vote_id : i \in 1..Len(index[k])} :
             k \in {j \in DOMAIN index :
                      /\ spider.terms = {} \/ j[1] \in spider.terms
                      /\ spider.meetings = {} \/ j[2] \in spider.meetings}}

IssuedIds == {r.vote_id : r \in hist.issued}

\* C9: in an index-driven run every request is for an id of a shard that
\* passes the filters, and none is issued for an id whose raw file exists
\* unless force is set; once start() is exhausted the ids requested are
\* exactly the selected ids that had no raw file when the run began, or all
\* the selected ids with force.
C9_DetailsRequests ==
    (phase = "open" /\ spider.name = "vote_details") =>
        /\ \A r \in hist.issued :
            /\ r.vote_id \in SelectedIds
            /\ r.existed => spider.force
        /\ cursor = Len(IndexRecords(index)) =>
            IssuedIds = {v \in SelectedIds : spider.force \/ v \notin hist.startFiles}

\* a filtered, non-forced run that skipped a collected vote and asked for another
C9_Witness ==
    /\ phase = "open" /\ spider.name = "vote_details" /\ ~spider.force
    /\ index # <<>> /\ cursor = Len(IndexRecords(index))
    /\ \E k \in DOMAIN index : ~ShardPasses(k[1], k[2], spider)
    /\ SelectedIds \cap hist.startFiles # {}
    /\ IssuedIds # {}

----------------------------------------------------------------------------
(* SpecIndex: VoteIndexJsonlPipeline, which keeps the per-meeting shards.    *)
(* Its code is not among the sources; it is modelled from the design text  *)
(* (shards deduplicated by vote_id, sorted ascending, last entry wins) and  *)
(* from test_vote_index_pipeline.py: items are buffered per (term_id,       *)
(* meeting_id) and the shards are written when the spider closes.          *)

\* the items ingested over a behaviour are at most MaxIngest
MaxIngest == 3

IndexShardKeys == {<<9, 43>>, <<9, 44>>}
IndexTitles == {"two", "two-updated"}

\* the vote_index items the spider yields (vote_index.py, _parse_results_table)
IndexItems ==
    [kind : {"vote_index"}, vote_id : 1..MaxVoteId, term_id : {9},
     meeting_id : {43, 44}, title : IndexTitles]

ItemShard(item) == <<item.term_id, item.meeting_id>>

BufferPut_KeepFirst(buf, item) ==
    LET k == ItemShard(item)
        old == IF k \in DOMAIN buf THEN buf[k] ELSE <<>>
    IN (k :> (old @@ (item.vote_id :> IndexEntry(item.vote_id, item.title)))) @@ buf

\* the item replaces whatever the shard's buffer held for its vote_id
BufferPut(buf, item) ==
    LET k == ItemShard(item)
        old == IF k \in DOMAIN buf THEN buf[k] ELSE <<>>
    IN (k :> ((item.vote_id :> IndexEntry(item.vote_id, item.title)) @@ old)) @@ buf

RECURSIVE LinesById(_)
\* the entries of a shard (vote_id -> entry) as lines in ascending vote_id order
LinesById(byId) ==
    IF DOMAIN byId = {} THEN <<>>
    ELSE LET v == CHOOSE v \in DOMAIN byId : \A w \in DOMAIN byId : v <= w
         IN <<byId[v]>> \o LinesById([w \in DOMAIN byId \ {v} |-> byId[w]])

\* the lines of a shard file read back as vote_id -> entry
ById(lines) ==
    [v \in {lines[i].vote_id : i \in 1..Len(lines)} |->
        lines[CHOOSE i \in 1..Len(lines) : lines[i].vote_id = v]]

\* the shard files after the buffered shards are written over the existing ones
FlushShards(idx, buf) ==
    [k \in DOMAIN idx \cup DOMAIN buf |->
        IF k \notin DOMAIN buf THEN idx[k]
        ELSE LinesById(buf[k] @@ (IF k \in DOMAIN idx THEN ById(idx[k]) ELSE <<>>))]

indexRest == <<fs, dirs, maxVoteId, wr, last, runStart, processed,
               spider, pending, cursor, hist, otherVars>>

\* from_crawler: a new pipeline for the run that opens
IndexOpen ==
    /\ phase \in {"idle", "closed"}
    /\ phase' = "open"
    /\ idxBuf' = <<>>
    /\ UNCHANGED <<index, idxLog, indexRest>>

\* VoteIndexJsonlPipeline.process_item(item)
IndexItem ==
    /\ phase = "open"
    /\ Len(idxLog.done) + Len(idxLog.run) < MaxIngest
    /\ \E item \in IndexItems :
        /\ idxBuf' = BufferPut(idxBuf, item)
        /\ idxLog' = [idxLog EXCEPT !.run = Append(idxLog.run, item)]
    /\ UNCHANGED <<index, phase, indexRest>>

\* VoteIndexJsonlPipeline._on_spider_closed(spider, "finished")
IndexClosed ==
    /\ phase = "open"
    /\ phase' = "closed"
    /\ index' = FlushShards(index, idxBuf)
    /\ idxLog' = [done |-> idxLog.done \o idxLog.run, run |-> <<>>]
    /\ UNCHANGED <<idxBuf, indexRest>>

IndexNext == IndexOpen \/ IndexItem \/ IndexClosed

SpecIndex == Init /\ [][IndexNext]_vars

\* the places in the log of the items ingested for shard k
LogOf(k) == {i \in 1..Len(idxLog.done) : ItemShard(idxLog.done[i]) = k}

\* C10: once a run has closed as finished, each shard that had items ingested
\* holds its lines in strictly ascending vote_id order, one line for each
\* vote_id ingested for it and no other, each line carrying the title of the
\* last item ingested for that vote_id; a shard with no item has no file.
C10_ShardSortedDeduped ==
    phase = "closed" =>
        \A k \in IndexShardKeys :
            IF LogOf(k) = {} THEN k \notin DOMAIN index
            ELSE /\ k \in DOMAIN index
                 /\ \A i \in 1..(Len(index[k]) - 1) :
                        index[k][i].vote_id < index[k][i + 1].vote_id
                 /\ {index[k][i].vote_id : i \in 1..Len(index[k])}
                        = {idxLog.done[i].vote_id : i \in LogOf(k)}
                 /\ \A i \in 1..Len(index[k]) :
                        LET v == index[k][i].vote_id
                            n == Max({j \in LogOf(k) : idxLog.done[j].vote_id = v})
                        IN index[k][i].title = idxLog.done[n].title

\* vote 2, vote 1, then vote 2 again with another title, in one shard
C10_Witness ==
    /\ phase = "closed"
    /\ \E k \in DOMAIN index :
        /\ Len(index[k]) = 2
        /\ Cardinality(LogOf(k)) = 3
        /\ idxLog.done[Max(LogOf(k))].vote_id = 2
        /\ idxLog.done[Max(LogOf(k))].title = "two-updated"
        /\ \E j \in LogOf(k) : idxLog.done[j].vote_id = 2 /\ idxLog.done[j].title = "two"

----------------------------------------------------------------------------
(* SpecBackfill: VoteIndexSpider in backfill mode, the result grid of each *)
(* meeting, one response at a time                                         *)

\* the most pages the server holds for one meeting
MaxPages == 3

\* the (term, meeting) pairs _schedule_meetings_for_term follows
GridMeetings == {<<9, 43>>, <<9, 44>>}

\* the numbers n of the Page$n links of a pager row the server renders for a
\* meeting of that many pages: any set, the empty one for no pager link
PagerLinks(pages) == SUBSET (0..pages)

\* _max_page(response)
MaxPageOf(links) == IF links = {} THEN None ELSE Max(links)

\* `if max_page and page < max_page`, taking the page from page to max_page
FollowsUp_AtLeast(page, links) ==
    LET max_page == MaxPageOf(links)
    IN max_page # None /\ max_page # 0 /\ page <= max_page

\* `if max_page and page < max_page`
FollowsUp(page, links) ==
    LET max_page == MaxPageOf(links)
    IN max_page # None /\ max_page # 0 /\ page < max_page

\* next_page = page + 1
NextPage(page) == page + 1

NoResponse == [page |-> 0, links |-> {}, issued |-> <<>>]

\* the request for page 1 that _schedule_meetings_for_term yields
GridScheduled(pages) ==
    [pages |-> pages, requested |-> <<1>>, outstanding |-> 1, resp |-> NoResponse]

\* _parse_meeting_results(response, page = g.outstanding) on a response whose
\* pager row carries the given links
GridAfterResponse(g, links) ==
    LET page == g.outstanding
        issued == IF FollowsUp(page, links) THEN <<NextPage(page)>> ELSE <<>>
    IN [g EXCEPT !.requested = g.requested \o issued,
                 !.outstanding = IF issued = <<>> THEN 0 ELSE issued[1],
                 !.resp = [page |-> page, links |-> links, issued |-> issued]]

gridRest == <<storeVars, collectVars, indexVars, processVars, siteVars>>

\* _schedule_meetings_for_term: the first page of a meeting is requested
ScheduleMeeting ==
    /\ \E m \in GridMeetings \ DOMAIN grid : \E pages \in 1..MaxPages :
        grid' = grid @@ (m :> GridScheduled(pages))
    /\ UNCHANGED gridRest

\* the response to the outstanding request of a meeting is parsed
MeetingPageParsed ==
    /\ \E m \in DOMAIN grid :
        /\ grid[m].outstanding # 0
        /\ \E links \in PagerLinks(grid[m].pages) :
            grid' = [grid EXCEPT ![m] = GridAfterResponse(grid[m], links)]
    /\ UNCHANGED gridRest

\* the outstanding request of a meeting fails for good: no callback runs
MeetingPageFailed ==
    /\ \E m \in DOMAIN grid :
        /\ grid[m].outstanding # 0
        /\ grid' = [grid EXCEPT ![m].outstanding = 0, ![m].resp = NoResponse]
    /\ UNCHANGED gridRest

BackfillNext == ScheduleMeeting \/ MeetingPageParsed \/ MeetingPageFailed

\* the engine downloads every scheduled request or gives it up
SpecBackfill ==
    /\ Init
    /\ [][BackfillNext]_vars
    /\ WF_vars(MeetingPageParsed \/ MeetingPageFailed)

\* what the callback of the last response of a meeting issued is one request
\* for the next page when the largest pager link exceeds the page, else nothing
GridFollowUpExact ==
    \A m \in DOMAIN grid :
        LET r == grid[m].resp
        IN r.page # 0 =>
            r.issued = IF r.links # {} /\ Max(r.links) > r.page
                       THEN <<r.page + 1>> ELSE <<>>

\* the pages requested for a meeting are 1, 2, 3, ... in this order
GridPagesInOrder ==
    \A m \in DOMAIN grid :
        \A i \in 1..Len(grid[m].requested) : grid[m].requested[i] = i

\* C11: the callback of a result page p issues exactly one request, for page
\* p + 1, when the largest pager link exceeds p and none otherwise; the pages
\* requested for a meeting are 1, 2, 3, ... with none requested twice; and
\* the crawl of every scheduled meeting comes to an end.
C11_BackfillPagination ==
    /\ [](GridFollowUpExact /\ GridPagesInOrder)
    /\ \A m \in GridMeetings :
        (m \in DOMAIN grid) ~> (m \in DOMAIN grid /\ grid[m].outstanding = 0)

\* a meeting crawled through pages 1 and 2, page 2 carrying no pager link
C11_Witness ==
    \E m \in DOMAIN grid :
        /\ grid[m].requested = <<1, 2>>
        /\ grid[m].outstanding = 0
        /\ grid[m].resp = [page |-> 2, links |-> {}, issued |-> <<>>]

----------------------------------------------------------------------------
(* process_votes: the raw payloads and the rows made of them *)

\* Python's None where a text is expected
NullStr == "<null>"

\* the vote codes of a raw member vote
VoteCodes == {"Z", "P", "?", "N", "0", NullStr}

\* _ABSENT_VOTE_CODES
AbsentVoteCodes == {"0", "N"}

\* is_present = vote_code is not None and vote_code not in _ABSENT_VOTE_CODES
IsPresent(vote_code) == vote_code # NullStr /\ vote_code \notin AbsentVoteCodes

\* is_voted = vote_code in {"Z", "P", "?"}
IsVoted(vote_code) == vote_code \in {"Z", "P", "?"}

NoClubRaw == "Poslanci, ktori nie su clenmi poslaneckych klubov"
NoClubInternal == "(no_club)"
UnknownClubInternal == "(unknown)"

\* " ".join(value.split()) on the club texts of the raw payloads
CollapseSpaces(value) ==
    CASE value = "  " -> ""
      [] value = "Club  A" -> "Club A"
      [] OTHER -> value

\* _normalize_club(value): NullStr stands for a value that is not a str
NormalizeClub(value) ==
    IF value = NullStr THEN UnknownClubInternal
    ELSE LET normalized == CollapseSpaces(value)
         IN IF normalized = "" THEN UnknownClubInternal
            ELSE IF normalized = NoClubRaw THEN NoClubInternal
            ELSE normalized

\* the date/time texts of the raw payloads ("Datum a cas")
DateTexts ==
    {NullStr, "", "n/a", "15. 6. 2025 10:06", "15. 6. 2025 11:06", "12. 12. 2025 10:06",
     "31. 2. 2025 10:06", "1. 12. 2025 25:00"}

\* _SK_DT_RE.match(value).groups() as ints: <<day, month, year, hour, minute>>,
\* or <<>> when the text is absent, empty or does not match
MatchSkDt(value) ==
    CASE value = "15. 6. 2025 10:06" -> <<15, 6, 2025, 10, 6>>
      [] value = "15. 6. 2025 11:06" -> <<15, 6, 2025, 11, 6>>
      [] value = "12. 12. 2025 10:06" -> <<12, 12, 2025, 10, 6>>
      [] value = "31. 2. 2025 10:06" -> <<31, 2, 2025, 10, 6>>
      [] value = "1. 12. 2025 25:00" -> <<1, 12, 2025, 25, 0>>
      [] OTHER -> <<>>

\* the days of the months of 2025, and the days of the year before a month
DaysInMonth == <<31, 28, 31, 30, 31, 30, 31, 31, 30, 31, 30, 31>>
RECURSIVE DaysBefore(_)
DaysBefore(month) ==
    IF month = 1 THEN 0 ELSE DaysBefore(month - 1) + DaysInMonth[month - 1]

\* datetime(year, month, day, hour, minute, ...) raises ValueError
DatetimeRaises(f) ==
    ~(/\ f[2] \in 1..12
      /\ f[1] \in 1..DaysInMonth[f[2]]
      /\ f[4] \in 0..23
      /\ f[5] \in 0..59)

\* parse_sk_datetime_to_local(value) raises
ParseRaises(value) == MatchSkDt(value) # <<>> /\ DatetimeRaises(MatchSkDt(value))

\* the offset of Europe/Bratislava from UTC in minutes, for the days of 2025
\* away from the two nights the clocks change
UtcOffset(f) ==
    IF f[2] \in 4..9 \/ (f[2] = 3 /\ f[1] = 31) \/ (f[2] = 10 /\ f[1] < 26)
    THEN 120 ELSE 60

\* parse_sk_datetime_to_local(value).astimezone(UTC), in minutes since
\* 2025-01-01T00:00Z; None when the text is absent or does not match
ParseSkDatetimeUtc(value) ==
    LET f == MatchSkDt(value)
    IN IF f = <<>> THEN None
       ELSE ((DaysBefore(f[2]) + f[1] - 1) * 24 + f[4]) * 60 + f[5] - UtcOffset(f)

\* a member vote of a raw payload
RawMpVote(mp_id, mp_name, club, vote_code) ==
    [mp_id |-> mp_id, mp_name |-> mp_name, club |-> club, vote_code |-> vote_code]

\* a raw vote payload, as far as process_votes reads it into the member tables
RawVote(vote_id, term_id, meeting_nr, date_text, mp_votes) ==
    [kind |-> "vote", vote_id |-> vote_id, term_id |-> term_id,
     meeting_nr |-> meeting_nr, date_text |-> date_text, mp_votes |-> mp_votes]

\* the row votes.append({...}) makes of a payload
VoteRow(payload) ==
    [vote_id |-> payload.vote_id, term_id |-> payload.term_id,
     meeting_nr |-> payload.meeting_nr,
     vote_datetime_utc |-> ParseSkDatetimeUtc(payload.date_text)]

\* the row mp_votes.append({...}) makes of a member vote of a payload
MpVoteRow(payload, mv) ==
    [vote_id |-> payload.vote_id, term_id |-> payload.term_id,
     meeting_nr |-> payload.meeting_nr,
     vote_datetime_utc |-> ParseSkDatetimeUtc(payload.date_text),
     mp_id |-> mv.mp_id, mp_name |-> mv.mp_name,
     club |-> NormalizeClub(mv.club), vote_code |-> mv.vote_code,
     is_present |-> IsPresent(mv.vote_code), is_voted |-> IsVoted(mv.vote_code)]

\* the payloads of kind "vote" among the files of a raw directory
VotePayloads(raw) == {raw[f] : f \in {g \in DOMAIN raw : raw[g].kind = "vote"}}

\* the rows of the two lists after the loop over the files
VoteRows(raw) == {VoteRow(payload) : payload \in VotePayloads(raw)}
MpVoteRows(raw) ==
    UNION {{MpVoteRow(payload, payload.mp_votes[i]) : i \in 1..Len(payload.mp_votes)} :
            payload \in VotePayloads(raw)}

\* a < b for two sort keys (tuples of ints, None first as polars puts nulls)
LexLess(a, b) ==
    \E i \in 1..Len(a) : a[i] < b[i] /\ \A j \in 1..(i - 1) : a[j] = b[j]

RECURSIVE Orderings(_, _)
\* the orders DataFrame.sort may leave the rows S in: ascending by key (a
\* function of the row), rows of equal key in any order
Orderings(S, key) ==
    IF S = {} THEN {<<>>}
    ELSE UNION {{<<x>> \o t : t \in Orderings(S \ {x}, key)} :
                x \in {y \in S : \A z \in S : ~LexLess(key[z], key[y])}}

\* .sort(["vote_datetime_utc", "vote_id"])
VoteKey(r) == <<r.vote_datetime_utc, r.vote_id>>
\* .sort(["vote_datetime_utc", "vote_id", "mp_id"])
MpVoteKey(r) == <<r.vote_datetime_utc, r.vote_id, r.mp_id>>

----------------------------------------------------------------------------
(* process_votes: the attendance aggregates *)

\* the number of rows of S with the property P
CountOf(S, P(_)) == Cardinality({r \in S : P(r)})

Round6_Truncated(count, total) == (1000000 * count) \div total

\* (present_count / total_votes).round(6), in millionths
Round6(count, total) == (2 * 1000000 * count + total) \div (2 * total)

\* the club labels of the tables, in the order of Python's and polars' string
\* comparison
ClubOrder ==
    <<"(no_club)", "(unknown)", "A B", "A B 2", "A-B", "Club A", "Club B",
      "Unknown", "Unknown 2">>
ClubRank(club) == CHOOSE i \in 1..Len(ClubOrder) : ClubOrder[i] = club

\* mp_votes_df.group_by(["term_id", "mp_id", "mp_name"]).agg(...).with_columns(...)
MpSummaryRows(rows) ==
    {LET g == {r \in rows : <<r.term_id, r.mp_id, r.mp_name>> = k}
         present == CountOf(g, LAMBDA r : r.is_present)
     IN [term_id |-> k[1], mp_id |-> k[2], mp_name |-> k[3],
         total_votes |-> Cardinality(g),
         present_count |-> present,
         voted_count |-> CountOf(g, LAMBDA r : r.is_voted),
         absent_count |-> CountOf(g, LAMBDA r : r.vote_code \in {"0", "N"}),
         not_voting_count |-> CountOf(g, LAMBDA r : r.vote_code = "N"),
         abstain_count |-> CountOf(g, LAMBDA r : r.vote_code = "?"),
         for_count |-> CountOf(g, LAMBDA r : r.vote_code = "Z"),
         against_count |-> CountOf(g, LAMBDA r : r.vote_code = "P"),
         participation_rate |-> Round6(present, Cardinality(g))] :
     k \in {<<r.term_id, r.mp_id, r.mp_name>> : r \in rows}}

\* .sort(["term_id", "participation_rate", "mp_id"])
MpSummaryKey(r) == <<r.term_id, r.participation_rate, r.mp_id>>

\* present_count = total_votes - absent_count
ClubPresent(g) == Cardinality(g) - CountOf(g, LAMBDA r : r.vote_code \in {"0", "N"})

\* mp_votes_df.group_by(["term_id", "club"]).agg(...).with_columns(...)
ClubSummaryRows(rows) ==
    {LET g == {r \in rows : <<r.term_id, r.club>> = k}
     IN [term_id |-> k[1], club |-> k[2],
         total_votes |-> Cardinality(g),
         absent_count |-> CountOf(g, LAMBDA r : r.vote_code \in {"0", "N"}),
         present_count |-> ClubPresent(g),
         participation_rate |-> Round6(ClubPresent(g), Cardinality(g))] :
     k \in {<<r.term_id, r.club>> : r \in rows}}

\* .sort(["term_id", "participation_rate", "club"])
ClubSummaryKey(r) == <<r.term_id, r.participation_rate, ClubRank(r.club)>>

\* the orders group_by(...).sort(...) may write mp_attendance.jsonl in: the
\* groups come in no fixed order and rows of equal sort key stay as they came
MpAttendanceTables(rows) ==
    Orderings(MpSummaryRows(rows), [r \in MpSummaryRows(rows) |-> MpSummaryKey(r)])

ClubAttendanceTables(rows) ==
    Orderings(ClubSummaryRows(rows), [r \in ClubSummaryRows(rows) |-> ClubSummaryKey(r)])

\* the rows of a table, as a set
RowsOf(table) == {table[i] : i \in 1..Len(table)}

----------------------------------------------------------------------------
(* process_votes: the files of the processed directory *)

\* a path under out_dir: the top-level name and, under mp_votes/, the
\* term=... directory and the file name
OutFile(top) == [top |-> top, term |-> <<>>, meeting |-> <<>>]
VotesJsonl == OutFile("votes.jsonl")
MpAttendanceJsonl == OutFile("mp_attendance.jsonl")
ClubAttendanceJsonl == OutFile("club_attendance.jsonl")
MetadataJson == OutFile("metadata.json")
ShardIndexJson == [top |-> "mp_votes", term |-> <<>>, meeting |-> <<"index.json">>]

\* the outputs of older versions that process_votes unlinks
LegacyFiles ==
    {OutFile("votes.csv"), OutFile("mp_votes.csv"), OutFile("mp_attendance.csv"),
     OutFile("club_attendance.csv"), OutFile("mp_votes.jsonl")}

\* str(n) if n is not None else "unknown", after "term=" or "meeting="
ShardPart(prefix, n) ==
    IF n # None THEN <<prefix>> \o IntToStr(n) ELSE <<prefix, "unknown">>

\* _mp_votes_shard_path(out_dir, term_id, meeting_nr)
MpVotesShardPath(term_id, meeting_nr) ==
    [top |-> "mp_votes", term |-> ShardPart("term=", term_id),
     meeting |-> ShardPart("meeting=", meeting_nr) \o <<".jsonl">>]

\* a file: its rows (lines, or the one object of a .json file) and whether
\* the write that made it ran to its end
WholeFile(rows) == [rows |-> rows, complete |-> TRUE]
CutFile(rows) == [rows |-> rows, complete |-> FALSE]

\* path.open("w") ... f.write(...): the file is replaced
WriteFile(dir, path, rows) ==
    [q \in DOMAIN dir \cup {path} |-> IF q = path THEN WholeFile(rows) ELSE dir[q]]

\* the files of dir that are not in the set gone
RemoveFiles(dir, gone) == [q \in DOMAIN dir \ gone |-> dir[q]]

RmtreeMpVotes_Keep(dir) == dir

\* shutil.rmtree(out_dir / "mp_votes")
RmtreeMpVotes(dir) == RemoveFiles(dir, {q \in DOMAIN dir : q.top = "mp_votes"})

\* the key of the partition a member-vote row falls in
PartitionKey(r) == <<r.term_id, r.meeting_nr>>

RECURSIVE FirstSeen(_)
\* the keys of partition_by(..., maintain_order=True, as_dict=True), in the
\* order of their first row
FirstSeen(table) ==
    IF table = <<>> THEN <<>>
    ELSE LET before == FirstSeen(SubSeq(table, 1, Len(table) - 1))
             k == PartitionKey(table[Len(table)])
         IN IF \E i \in 1..Len(before) : before[i] = k THEN before
            ELSE Append(before, k)

\* the shard of a key: the rows of the table with that key, in table order
ShardRows(table, k) == SelectSeq(table, LAMBDA r : PartitionKey(r) = k)

\* a < b on two tuples of the same length, as Python compares them: the
\* first items that differ decide, and None against an int is a TypeError
PyTupleLt(a, b) ==
    IF a = b THEN "no"
    ELSE LET i == CHOOSE i \in 1..Len(a) :
                      a[i] # b[i] /\ \A j \in 1..(i - 1) : a[j] = b[j]
         IN IF a[i] = None \/ b[i] = None THEN "TypeError"
            ELSE IF a[i] < b[i] THEN "yes" ELSE "no"

RECURSIVE RunEnd(_, _, _)
\* list.sort, count_run: the end of the run that starts the list (0 when a
\* comparison raises); i is the last place known to be in the run
RunEnd(keys, i, descending) ==
    IF i = Len(keys) THEN i
    ELSE LET c == PyTupleLt(keys[i + 1], keys[i])
         IN IF c = "TypeError" THEN 0
            ELSE IF (c = "yes") = descending THEN RunEnd(keys, i + 1, descending)
            ELSE i

RECURSIVE BinaryPos(_, _, _, _)
\* list.sort, binarysort: how many items of sorted come before pivot
\* (-1 when a comparison raises)
BinaryPos(sorted, pivot, l, r) ==
    IF l >= r THEN l
    ELSE LET mid == l + ((r - l) \div 2)
             c == PyTupleLt(pivot, sorted[mid + 1])
         IN IF c = "TypeError" THEN -1
            ELSE IF c = "yes" THEN BinaryPos(sorted, pivot, l, mid)
            ELSE BinaryPos(sorted, pivot, mid + 1, r)

RECURSIVE BinarySort(_, _)
BinarySort(sorted, rest) ==
    IF rest = <<>> THEN [raised |-> FALSE, keys |-> sorted]
    ELSE LET pos == BinaryPos(sorted, Head(rest), 0, Len(sorted))
         IN IF pos = -1 THEN [raised |-> TRUE, keys |-> <<>>]
            ELSE BinarySort(SubSeq(sorted, 1, pos) \o <<Head(rest)>>
                                \o SubSeq(sorted, pos + 1, Len(sorted)),
                            Tail(rest))

Reversed(s) == [i \in 1..Len(s) |-> s[Len(s) + 1 - i]]

\* sorted(partitions.items(), key=lambda kv: kv[0]) on fewer than 64 keys:
\* the leading run, reversed when it descends, then binary insertion
PySorted(keys) ==
    IF Len(keys) < 2 THEN [raised |-> FALSE, keys |-> keys]
    ELSE LET first == PyTupleLt(keys[2], keys[1])
             end == IF first = "TypeError" THEN 0
                    ELSE RunEnd(keys, 2, first = "yes")
             run == SubSeq(keys, 1, end)
         IN IF end = 0 THEN [raised |-> TRUE, keys |-> <<>>]
            ELSE BinarySort(IF first = "yes" THEN Reversed(run) ELSE run,
                            SubSeq(keys, end + 1, Len(keys)))

\* the entry shards_index.append({...}) makes for a shard that was written
ShardIndexEntry(k, rows) ==
    [term_id |-> k[1], meeting_nr |-> k[2],
     path |-> MpVotesShardPath(k[1], k[2]), rows |-> Len(rows)]

----------------------------------------------------------------------------
(* process_votes, one file-system operation at a time *)

\* the calls of process_votes that are started
MaxRuns == 2

processRest == <<storeVars, collectVars, indexVars, backfillVars, siteVars>>

\* the loop over the raw files, then the two sorted frames; a date/time text
\* that datetime() rejects ends the call with ValueError
ProcLoad ==
    /\ proc.pc = "idle"
    /\ procLog.started < MaxRuns
    /\ IF \E payload \in VotePayloads(rawDir) : ParseRaises(payload.date_text)
       THEN /\ proc' = proc
            /\ procLog' = [procLog EXCEPT !.started = @ + 1, !.raised = @ + 1]
       ELSE /\ \E votes_df \in Orderings(VoteRows(rawDir),
                                         [r \in VoteRows(rawDir) |-> VoteKey(r)]) :
               \E mp_votes_df \in Orderings(MpVoteRows(rawDir),
                                            [r \in MpVoteRows(rawDir) |-> MpVoteKey(r)]) :
                proc' = [NoProc EXCEPT !.pc = "legacy", !.raw = rawDir,
                                       !.raw_vote_files = Cardinality(DOMAIN rawDir),
                                       !.votes_df = votes_df, !.mp_votes_df = mp_votes_df]
            /\ procLog' = [procLog EXCEPT !.started = @ + 1]
    /\ UNCHANGED <<rawDir, outDir, processRest>>

\* legacy.unlink(missing_ok=True), for the five legacy outputs
ProcUnlinkLegacy ==
    /\ proc.pc = "legacy"
    /\ outDir' = RemoveFiles(outDir, LegacyFiles)
    /\ proc' = [proc EXCEPT !.pc = "votes"]
    /\ UNCHANGED <<rawDir, procLog, processRest>>

\* _write_jsonl(votes_df, out_dir / "votes.jsonl")
ProcWriteVotes ==
    /\ proc.pc = "votes"
    /\ outDir' = WriteFile(outDir, VotesJsonl, proc.votes_df)
    /\ proc' = [proc EXCEPT !.pc = "rmtree"]
    /\ UNCHANGED <<rawDir, procLog, processRest>>

\* _write_mp_votes_shards: rmtree and mkdir of mp_votes/, then the partitions
\* and their sorted keys; the sort may raise TypeError, which ends the call
ProcPartition ==
    /\ proc.pc = "rmtree"
    /\ outDir' = RmtreeMpVotes(outDir)
    /\ LET order == PySorted(FirstSeen(proc.mp_votes_df))
       IN IF order.raised
          THEN /\ proc' = NoProc
               /\ procLog' = [procLog EXCEPT !.raised = @ + 1]
          ELSE /\ proc' = [proc EXCEPT !.pc = "shards", !.todo = order.keys]
               /\ UNCHANGED procLog
    /\ UNCHANGED <<rawDir, processRest>>

\* _write_jsonl(shard_df, path) and shards_index.append({...}) for the next key
ProcWriteShard ==
    /\ proc.pc = "shards" /\ proc.todo # <<>>
    /\ LET k == Head(proc.todo)
           rows == ShardRows(proc.mp_votes_df, k)
       IN /\ outDir' = WriteFile(outDir, MpVotesShardPath(k[1], k[2]), rows)
          /\ proc' = [proc EXCEPT !.todo = Tail(proc.todo),
                                  !.shards_index = Append(@, ShardIndexEntry(k, rows))]
    /\ UNCHANGED <<rawDir, procLog, processRest>>

\* _write_json(root / "index.json", {"shards": shards_index})
ProcWriteShardIndex ==
    /\ proc.pc = "shards" /\ proc.todo = <<>>
    /\ outDir' = WriteFile(outDir, ShardIndexJson, <<[shards |-> proc.shards_index]>>)
    /\ proc' = [proc EXCEPT !.pc = "mp_attendance"]
    /\ UNCHANGED <<rawDir, procLog, processRest>>

\* _write_jsonl(mp_summary, out_dir / "mp_attendance.jsonl")
ProcWriteMpAttendance ==
    /\ proc.pc = "mp_attendance"
    /\ \E table \in MpAttendanceTables(RowsOf(proc.mp_votes_df)) :
        outDir' = WriteFile(outDir, MpAttendanceJsonl, table)
    /\ proc' = [proc EXCEPT !.pc = "club_attendance"]
    /\ UNCHANGED <<rawDir, procLog, processRest>>

\* _write_jsonl(club_summary, out_dir / "club_attendance.jsonl")
ProcWriteClubAttendance ==
    /\ proc.pc = "club_attendance"
    /\ \E table \in ClubAttendanceTables(RowsOf(proc.mp_votes_df)) :
        outDir' = WriteFile(outDir, ClubAttendanceJsonl, table)
    /\ proc' = [proc EXCEPT !.pc = "metadata"]
    /\ UNCHANGED <<rawDir, procLog, processRest>>

\* ProcessResult(...).as_dict()
ProcessResult(p, now) ==
    [schema_version |-> 1, last_updated_utc |-> now,
     raw_vote_files |-> p.raw_vote_files,
     votes_rows |-> Len(p.votes_df), mp_votes_rows |-> Len(p.mp_votes_df)]

\* (out_dir / "metadata.json").write_text(...); return result
ProcWriteMetadata ==
    /\ proc.pc = "metadata"
    /\ \E now \in Times :
        outDir' = WriteFile(outDir, MetadataJson, <<ProcessResult(proc, now)>>)
    /\ proc' = NoProc
    /\ procLog' = [procLog EXCEPT !.done = Append(@, [raw |-> proc.raw, out |-> outDir'])]
    /\ UNCHANGED <<rawDir, processRest>>

\* the write the call is about to make: its path, the rows it may write and
\* whether the file is one JSON object
PendingWrites(p) ==
    CASE p.pc = "votes" -> {<<VotesJsonl, p.votes_df, FALSE>>}
      [] p.pc = "shards" /\ p.todo # <<>> ->
            {<<MpVotesShardPath(Head(p.todo)[1], Head(p.todo)[2]),
               ShardRows(p.mp_votes_df, Head(p.todo)), FALSE>>}
      [] p.pc = "shards" /\ p.todo = <<>> ->
            {<<ShardIndexJson, <<[shards |-> p.shards_index]>>, TRUE>>}
      [] p.pc = "mp_attendance" ->
            {<<MpAttendanceJsonl, t, FALSE>> : t \in MpAttendanceTables(RowsOf(p.mp_votes_df))}
      [] p.pc = "club_attendance" ->
            {<<ClubAttendanceJsonl, t, FALSE>> : t \in ClubAttendanceTables(RowsOf(p.mp_votes_df))}
      [] p.pc = "metadata" ->
            {<<MetadataJson, <<ProcessResult(p, now)>>, TRUE>> : now \in Times}
      [] OTHER -> {}

\* the file left by a write that is cut short: some of its lines and the
\* start of the next one
CutWrite(dir, path, rows) ==
    [q \in DOMAIN dir \cup {path} |-> IF q = path THEN CutFile(rows) ELSE dir[q]]

\* what the processed directory may hold when the process dies at proc.pc
KilledDirs(dir, p) ==
    {dir}
    \cup UNION {{CutWrite(dir, w[1], SubSeq(w[2], 1, k)) :
                    k \in 0..(IF w[3] THEN 0 ELSE Len(w[2]) - 1)} :
                w \in PendingWrites(p)}
    \cup (IF p.pc = "rmtree"
          THEN {RemoveFiles(dir, gone) : gone \in SUBSET {q \in DOMAIN dir : q.top = "mp_votes"}}
          ELSE {})

\* the process dies inside process_votes
ProcKilled ==
    /\ proc.pc # "idle"
    /\ outDir' \in KilledDirs(outDir, proc)
    /\ proc' = NoProc
    /\ UNCHANGED <<rawDir, procLog, processRest>>

----------------------------------------------------------------------------
(* SpecProcess: calls of process_votes on a raw directory that changes *)
(* between the calls                                                    *)

\* the one member vote of the raw payloads of this specification
OneMember == <<RawMpVote(10, "Alpha", "Club A", "Z")>>

\* the same member under the name of a later record
RenamedMember == <<RawMpVote(10, "Alpha B", "Club A", "Z")>>

\* the raw directories: file 1.json is missing, a vote of term 9, meeting 43
\* or a record of another kind; file 2.json is missing or a vote of meeting
\* 43 or 44 of term 9, of an unknown term or of an unknown meeting
RawFileChoices(v) ==
    IF v = 1
    THEN {RawVote(1, 9, 43, "15. 6. 2025 11:06", OneMember),
          [RawVote(1, 9, 43, NullStr, <<>>) EXCEPT !.kind = "vote_index"]}
    ELSE {RawVote(v, t[1], t[2], "12. 12. 2025 10:06", OneMember) :
            t \in {<<9, 43>>, <<9, 44>>, <<None, 43>>, <<9, None>>}}
         \cup {RawVote(v, 9, 44, "12. 12. 2025 10:06", RenamedMember)}

ChangingRawDirs ==
    {[v \in ids |-> files[v]] :
        ids \in SUBSET {1, 2},
        files \in {f \in [{1, 2} -> RawFileChoices(1) \cup RawFileChoices(2)] :
                     \A v \in {1, 2} : f[v] \in RawFileChoices(v)}}

\* the processed directory before the first call: empty, or the outputs of
\* an older version of the pipeline
LegacyDir == [q \in LegacyFiles |-> WholeFile(<<>>)]

\* the collector stores, overwrites or loses raw files between two calls
RawStored ==
    /\ proc.pc = "idle"
    /\ procLog.started < MaxRuns
    /\ rawDir' \in ChangingRawDirs \ {rawDir}
    /\ UNCHANGED <<outDir, proc, procLog, processRest>>

ProcessInit ==
    /\ StoreInit /\ CollectIdle /\ IndexIdle /\ BackfillIdle /\ SiteIdle
    /\ rawDir = <<>>
    /\ outDir \in {<<>>, LegacyDir}
    /\ proc = NoProc
    /\ procLog = NoProcLog

ProcessNext ==
    \/ RawStored
    \/ ProcLoad
    \/ ProcUnlinkLegacy
    \/ ProcWriteVotes
    \/ ProcPartition
    \/ ProcWriteShard
    \/ ProcWriteShardIndex
    \/ ProcWriteMpAttendance
    \/ ProcWriteClubAttendance
    \/ ProcWriteMetadata
    \/ ProcKilled

SpecProcess == ProcessInit /\ [][ProcessNext]_vars

\* the last call of process_votes that returned: its raw directory and the
\* processed directory it left
LastDone == procLog.done[Len(procLog.done)]

\* the shard files of a processed directory
ShardFilesOf(dir) == {q \in DOMAIN dir : q.top = "mp_votes" /\ q # ShardIndexJson}

RECURSIVE SumOfRows(_)
\* the sum of the "rows" of the entries of a shard index
SumOfRows(entries) ==
    IF entries = <<>> THEN 0 ELSE Head(entries).rows + SumOfRows(Tail(entries))

\* C15: whenever no call of process_votes is in progress and metadata.json
\* is present (and is a whole JSON text), the processed directory holds, complete, the outputs of the call that wrote
\* that metadata and no other content: votes.jsonl, the shards and their
\* index and both attendance tables are those the call left, and their row
\* counts are the recorded ones.
C15_MetadataSignalsCompleteRun ==
    (proc.pc = "idle" /\ MetadataJson \in DOMAIN outDir
                      /\ outDir[MetadataJson].complete) =>
        /\ procLog.done # <<>>
        /\ \A q \in (DOMAIN outDir \cup DOMAIN LastDone.out) \ {MetadataJson} :
            /\ q \in DOMAIN outDir /\ q \in DOMAIN LastDone.out
            /\ outDir[q].complete /\ outDir[q] = LastDone.out[q]
        /\ Len(outDir[VotesJsonl].rows) = outDir[MetadataJson].rows[1].votes_rows
        /\ SumOfRows(outDir[ShardIndexJson].rows[1].shards)
                = outDir[MetadataJson].rows[1].mp_votes_rows

\* C16: when a call of process_votes has returned, the shard files under
\* mp_votes/ are those of the (term_id, meeting_nr) pairs of the call's
\* member-vote rows and no other, index.json lists each of them once, every
\* member-vote row is in the shard of its pair and in no other, and the row
\* counts of the index sum to mp_votes_rows.
C16_ShardsFullyReplaced ==
    (procLog.done # <<>> /\ outDir = LastDone.out) =>
        LET rows == MpVoteRows(LastDone.raw)
            paths == {MpVotesShardPath(r.term_id, r.meeting_nr) : r \in rows}
            shards == outDir[ShardIndexJson].rows[1].shards
        IN /\ ShardFilesOf(outDir) = paths
           /\ {shards[i].path : i \in 1..Len(shards)} = paths
           /\ Len(shards) = Cardinality(paths)
           /\ \A r \in rows : \A q \in ShardFilesOf(outDir) :
                (r \in RowsOf(outDir[q].rows))
                    <=> (q = MpVotesShardPath(r.term_id, r.meeting_nr))
           /\ \A i \in 1..Len(shards) : shards[i].rows = Len(outDir[shards[i].path].rows)
           /\ SumOfRows(shards) = Cardinality(rows)
           /\ SumOfRows(shards) = outDir[MetadataJson].rows[1].mp_votes_rows

\* a second call has returned and a shard the first call wrote is gone
C16_Witness ==
    /\ Len(procLog.done) = 2
    /\ outDir = LastDone.out
    /\ ShardFilesOf(outDir) # {}
    /\ \E q \in ShardFilesOf(procLog.done[1].out) : q \notin DOMAIN outDir

\* C17: process_votes never ends in an error, and when it has returned every
\* member-vote row without a term_id or without a meeting_nr is in the shard
\* whose path says "unknown" for the missing part.
C17_UnknownPartition ==
    /\ procLog.raised = 0
    /\ (procLog.done # <<>> /\ outDir = LastDone.out) =>
        \A r \in MpVoteRows(LastDone.raw) :
            (r.term_id = None \/ r.meeting_nr = None) =>
                LET q == MpVotesShardPath(r.term_id, r.meeting_nr)
                IN /\ q \in DOMAIN outDir
                   /\ r \in RowsOf(outDir[q].rows)
                   /\ (r.term_id = None => q.term = <<"term=", "unknown">>)
                   /\ (r.meeting_nr = None
                        => q.meeting = <<"meeting=", "unknown", ".jsonl">>)

\* the tables of a processed directory and the metadata without its
\* generation timestamp
TablesOf(dir) ==
    [q \in DOMAIN dir |->
        IF q = MetadataJson
        THEN [rows |-> <<[dir[q].rows[1] EXCEPT !.last_updated_utc = ""]>>,
              complete |-> dir[q].complete]
        ELSE dir[q]]

\* C18: two calls of process_votes that returned on the same raw directory
\* left the same votes, member-vote shards, mp_attendance and club_attendance
\* tables, rows in the same order; only the timestamp of the metadata differs
C18_ProcessDeterministic ==
    \A i \in DOMAIN procLog.done : \A j \in DOMAIN procLog.done :
        procLog.done[i].raw = procLog.done[j].raw
            => TablesOf(procLog.done[i].out) = TablesOf(procLog.done[j].out)

\* C24: mp_attendance has exactly one row for every (term_id, mp_id) of the
\* member-vote rows, also when the mp_id is recorded under several names, and
\* the total_votes of that row is the number of member-vote rows of the pair
C24_OneRowPerMember ==
    \A i \in DOMAIN procLog.done :
        LET rows == MpVoteRows(procLog.done[i].raw)
            table == procLog.done[i].out[MpAttendanceJsonl].rows
        IN \A k \in {<<r.term_id, r.mp_id>> : r \in rows} :
            \E n \in 1..Len(table) :
                /\ <<table[n].term_id, table[n].mp_id>> = k
                /\ table[n].total_votes
                     = Cardinality({r \in rows : <<r.term_id, r.mp_id>> = k})
                /\ \A o \in 1..Len(table) :
                     <<table[o].term_id, table[o].mp_id>> = k => o = n

----------------------------------------------------------------------------
(* build_site_data: the frames read from the processed directory *)

\* timedelta(days=180)
WindowDays == 180

\* a path under out_assets_data_dir: term/<term_id>/<name>, or <name> at the
\* top when term is None
SiteFile(term, name) == [term |-> term, name |-> name]
ManifestJson == SiteFile(None, "manifest.json")

\* _write_json(path, obj)
WriteSite(dir, path, obj) ==
    [q \in DOMAIN dir \cup {path} |-> IF q = path THEN obj ELSE dir[q]]

\* the lists a caller gives as terms: in either order, with a term twice,
\* empty, or with 7, which is in no table of the model
TermLists == {<<>>, <<9>>, <<8, 9>>, <<9, 8>>, <<9, 9>>, <<7>>}

\* the inputs whose absence raises FileNotFoundError before anything is read
MissingInputs(dir) ==
    {MetadataJson, MpAttendanceJsonl, ClubAttendanceJsonl, VotesJsonl} \ DOMAIN dir

\* sorted({int(t) for t in mps_df["term_id"].unique() if t is not None}, reverse=True)
DiscoveredTerms(mps_df) == {r.term_id : r \in RowsOf(mps_df)} \ {None}

RECURSIVE Descending(_)
Descending(S) ==
    IF S = {} THEN <<>> ELSE <<Max(S)>> \o Descending(S \ {Max(S)})

\* the terms of a build: the discovered ones, largest first, or the terms
\* the caller gave that are discovered, in the caller's order
SelectedTerms(terms, discovered_terms) ==
    IF ~terms.given THEN Descending(discovered_terms)
    ELSE SelectSeq(terms.list, LAMBDA t : t \in discovered_terms)

\* the manifest of a build
Manifest(metadata, terms) ==
    [schema_version |-> metadata.schema_version,
     last_updated_utc |-> metadata.last_updated_utc,
     terms |-> terms, default_term_id |-> Max({terms[i] : i \in DOMAIN terms})]

\* the inputs build_site_data reads before it writes: reading a file whose
\* write was cut short raises (the file ends inside a line)
UnreadableInputs(dir) ==
    {q \in {MetadataJson, MpAttendanceJsonl, ClubAttendanceJsonl, VotesJsonl} \cap DOMAIN dir :
        ~dir[q].complete}

\* the shards the index lists for the term
ShardsOfTerm(dir, term_id) ==
    {s \in RowsOf(dir[ShardIndexJson].rows[1].shards) : s.term_id = term_id}

\* _load_mp_votes_for_term raises: neither the index nor mp_votes.jsonl is
\* there, or the file it reads is cut short or gone
LoadMpVotesRaises(dir, term_id) ==
    IF ShardIndexJson \in DOMAIN dir
    THEN \/ ~dir[ShardIndexJson].complete
         \/ \E e \in ShardsOfTerm(dir, term_id) :
               e.path \notin DOMAIN dir \/ ~dir[e.path].complete
    ELSE OutFile("mp_votes.jsonl") \in DOMAIN dir => ~dir[OutFile("mp_votes.jsonl")].complete

\* _load_mp_votes_for_term: the rows of the shards the index lists for the
\* term or, without an index, the rows of the term in mp_votes.jsonl
LoadMpVotesForTerm(dir, term_id) ==
    IF ShardIndexJson \in DOMAIN dir
    THEN UNION {RowsOf(dir[e.path].rows) : e \in ShardsOfTerm(dir, term_id)}
    ELSE {r \in RowsOf(dir[OutFile("mp_votes.jsonl")].rows) : r.term_id = term_id}

\* a comes before b in .sort([..., "vote_datetime_utc", "vote_id"], descending=True);
\* where the null timestamps go depends on the polars build
Before(a, b, nulls_first) ==
    IF a.vote_datetime_utc = b.vote_datetime_utc THEN a.vote_id > b.vote_id
    ELSE IF a.vote_datetime_utc = None THEN nulls_first
    ELSE IF b.vote_datetime_utc = None THEN ~nulls_first
    ELSE a.vote_datetime_utc > b.vote_datetime_utc

\* the first row of the rows S in that order
FirstDescending(S, nulls_first) ==
    CHOOSE a \in S : \A b \in S \ {a} : Before(a, b, nulls_first)

RECURSIVE SortDescending(_, _)
\* term_votes_df: the votes of the term, latest first
SortDescending(S, nulls_first) ==
    IF S = {} THEN <<>>
    ELSE LET a == FirstDescending(S, nulls_first)
         IN <<a>> \o SortDescending(S \ {a}, nulls_first)

\* _invalid_club_vote_ids: the votes none of whose rows names a real club
InvalidClubVoteIds(rows) ==
    {v \in {r.vote_id : r \in rows} :
        \A r \in rows : r.vote_id = v => r.club \in {NoClubInternal, UnknownClubInternal}}

FilterInvalidClubVotes_Keep(rows, invalid) == rows

\* df.filter(~pl.col("vote_id").is_in(list(invalid_club_vote_ids)))
FilterInvalidClubVotes(rows, invalid) == {r \in rows : r.vote_id \notin invalid}

\* the members of the rows whose mp_id is an int
MpIds(rows) == {r.mp_id : r \in rows} \ {None}

PrimaryClubById_LargerLabel(rows) ==
    [mp \in MpIds(rows) |->
        LET mine == {r \in rows : r.mp_id = mp}
            n == [c \in {r.club : r \in mine} |-> Cardinality({r \in mine : r.club = c})]
        IN CHOOSE c \in DOMAIN n :
              \A d \in DOMAIN n \ {c} :
                 n[c] > n[d] \/ (n[c] = n[d] /\ ClubRank(c) > ClubRank(d))]

\* primary_clubs: per member the club of most rows, the smaller label on a tie
PrimaryClubById(rows) ==
    [mp \in MpIds(rows) |->
        LET mine == {r \in rows : r.mp_id = mp}
            n == [c \in {r.club : r \in mine} |-> Cardinality({r \in mine : r.club = c})]
        IN CHOOSE c \in DOMAIN n :
              \A d \in DOMAIN n \ {c} :
                 n[c] > n[d] \/ (n[c] = n[d] /\ ClubRank(c) < ClubRank(d))]

\* current_clubs and current_club_for_votes: per member the club of the
\* first row, latest first
CurrentClubForVotes(rows, nulls_first) ==
    [mp \in MpIds(rows) |->
        FirstDescending({r \in rows : r.mp_id = mp}, nulls_first).club]

\* slugify(label), on the club labels of the model. A key is the sequence of
\* the parts that "-" joins, a number at its end apart: "a-b-2" is <<"a-b", 2>>
Slugify(label) ==
    CASE label = "(no_club)" -> <<"no-club">>
      [] label = "(unknown)" -> <<"unknown">>
      [] label = "A B" -> <<"a-b">>
      [] label = "A B 2" -> <<"a-b", 2>>
      [] label = "A-B" -> <<"a-b">>
      [] label = "Club A" -> <<"club-a">>
      [] label = "Club B" -> <<"club-b">>
      [] label = "Unknown" -> <<"unknown">>
      [] label = "Unknown 2" -> <<"unknown", 2>>
      [] OTHER -> <<"unknown">>

\* _RESERVED_CLUB_KEYS
ReservedClubKeys == [c \in {NoClubInternal, UnknownClubInternal} |->
                        IF c = NoClubInternal THEN <<"no-club">> ELSE <<"unknown">>]

\* the key of a label before the count of its uses is appended: the reserved
\* key, or the slug, with -2 when the slug is a reserved key
BaseClubKey(label) ==
    IF label \in DOMAIN ReservedClubKeys THEN ReservedClubKeys[label]
    ELSE IF \E c \in DOMAIN ReservedClubKeys : ReservedClubKeys[c] = Slugify(label)
    THEN Slugify(label) \o <<2>>
    ELSE Slugify(label)

\* sorted({c for c in clubs if isinstance(c, str)})
SortedLabels(labels) == SelectSeq(ClubOrder, LAMBDA c : c \in labels)

\* build_club_keys(clubs): the n-th label of a key gets the suffix -n
BuildClubKeys(labels) ==
    LET sorted == SortedLabels(labels)
    IN [c \in labels |->
          LET i == CHOOSE i \in 1..Len(sorted) : sorted[i] = c
              n == Cardinality({j \in 1..i : BaseClubKey(sorted[j]) = BaseClubKey(c)})
          IN IF n > 1 THEN BaseClubKey(c) \o <<n>> ELSE BaseClubKey(c)]

\* club_key_map.get(label, slugify(label))
ClubKeyOf(club_key_map, label) ==
    IF label \in DOMAIN club_key_map THEN club_key_map[label] ELSE Slugify(label)

\* what build_site_data knows of a term before it builds the variants
TermContext(dir, term_id, nulls_first) ==
    LET term_mp_votes == LoadMpVotesForTerm(dir, term_id)
        invalid == InvalidClubVoteIds(term_mp_votes)
        club_votes == FilterInvalidClubVotes(term_mp_votes, invalid)
        labels == {r.club : r \in {c \in RowsOf(dir[ClubAttendanceJsonl].rows) :
                                      c.term_id = term_id}}
    IN [term_id |-> term_id,
        nulls_first |-> nulls_first,
        term_votes |-> {r \in RowsOf(dir[VotesJsonl].rows) : r.term_id = term_id},
        term_mp_votes |-> term_mp_votes,
        invalid_club_vote_ids |-> invalid,
        mp_primary_club_by_id |-> PrimaryClubById(club_votes),
        mp_current_club_by_id |-> CurrentClubForVotes(club_votes, nulls_first),
        club_labels |-> labels,
        club_key_map |-> BuildClubKeys(labels)]

----------------------------------------------------------------------------
(* build_site_data: the overview of a term, window and absence variant *)

AbsentCodes_Collapsed(kind) == {"0", "N"}

\* abs0n = ["0", "N"]; abs0 = ["0"]
AbsentCodes(kind) == IF kind = "abs0n" THEN {"0", "N"} ELSE {"0"}

\* attach_clubs, for a member whose mp_id is an int
AttachClubs(ctx, mp, current_by_id) ==
    LET primary_club == IF mp.mp_id \in DOMAIN ctx.mp_primary_club_by_id
                        THEN ctx.mp_primary_club_by_id[mp.mp_id]
                        ELSE UnknownClubInternal
        current_club == IF mp.mp_id \in DOMAIN current_by_id
                        THEN current_by_id[mp.mp_id]
                        ELSE IF mp.mp_id \in DOMAIN ctx.mp_current_club_by_id
                        THEN ctx.mp_current_club_by_id[mp.mp_id]
                        ELSE primary_club
    IN [primary_club |-> primary_club,
        primary_club_key |-> ClubKeyOf(ctx.club_key_map, primary_club),
        current_club |-> current_club,
        current_club_key |-> ClubKeyOf(ctx.club_key_map, current_club),
        club |-> current_club,
        club_key |-> ClubKeyOf(ctx.club_key_map, current_club)]

\* mps_from_votes, before the sort: one row per (mp_id, mp_name)
MpsRows(ctx, rows, absent_codes, current_by_id) ==
    {LET g == {r \in rows : <<r.mp_id, r.mp_name>> = k}
         total == Cardinality(g)
         absent == CountOf(g, LAMBDA r : r.vote_code \in absent_codes)
         clubs == AttachClubs(ctx, [mp_id |-> k[1]], current_by_id)
     IN [mp_id |-> k[1], mp_name |-> k[2], term_id |-> ctx.term_id,
         total_votes |-> total,
         absent_count |-> absent,
         voted_count |-> CountOf(g, LAMBDA r : r.vote_code \in {"Z", "P", "?"}),
         for_count |-> CountOf(g, LAMBDA r : r.vote_code = "Z"),
         against_count |-> CountOf(g, LAMBDA r : r.vote_code = "P"),
         abstain_count |-> CountOf(g, LAMBDA r : r.vote_code = "?"),
         not_voting_count |-> CountOf(g, LAMBDA r : r.vote_code = "N"),
         present_count |-> total - absent,
         participation_rate |-> Round6(total - absent, total),
         primary_club |-> clubs.primary_club,
         primary_club_key |-> clubs.primary_club_key,
         current_club |-> clubs.current_club,
         current_club_key |-> clubs.current_club_key,
         club |-> clubs.club, club_key |-> clubs.club_key] :
     k \in {<<r.mp_id, r.mp_name>> : r \in rows}}

\* .sort(["participation_rate", "mp_id"], descending=[True, False])
MpsKey(r) == <<0 - r.participation_rate, r.mp_id>>

\* mps_from_votes: the orders the sort may leave the rows in
MpsFromVotes(ctx, rows, absent_codes, current_by_id) ==
    LET mps == MpsRows(ctx, rows, absent_codes, current_by_id)
    IN Orderings(mps, [r \in mps |-> MpsKey(r)])

RECURSIVE SumOf(_)
\* .sum() of a column, given as a function of the rows
SumOf(f) ==
    IF DOMAIN f = {} THEN 0
    ELSE LET x == CHOOSE x \in DOMAIN f : TRUE
         IN f[x] + SumOf([y \in DOMAIN f \ {x} |-> f[y]])

\* clubs_from_mps, before the sort: one row per (club, club_key)
ClubsFromMps(ctx, mps) ==
    {LET g == {r \in mps : r.club = c}
         total == SumOf([r \in g |-> r.total_votes])
         present == SumOf([r \in g |-> r.present_count])
     IN [term_id |-> ctx.term_id, club |-> c,
         club_key |-> (CHOOSE r \in g : TRUE).club_key,
         total_votes |-> total,
         present_count |-> present,
         absent_count |-> SumOf([r \in g |-> r.absent_count]),
         voted_count |-> SumOf([r \in g |-> r.voted_count]),
         participation_rate |-> Round6(present, total)] :
     c \in {r.club : r \in mps}}

\* the rows fill_missing_clubs appends for the clubs of the full term that
\* have no row
MissingClubRows(ctx, clubs_rows) ==
    {[term_id |-> ctx.term_id, club |-> label,
      club_key |-> ClubKeyOf(ctx.club_key_map, label),
      total_votes |-> 0, present_count |-> 0, absent_count |-> 0, voted_count |-> 0,
      participation_rate |-> None] :
     label \in {l \in ctx.club_labels :
                  \A r \in clubs_rows : r.club_key # ClubKeyOf(ctx.club_key_map, l)}}

\* key=lambda r: (-(r.get("participation_rate") or -1), str(r.get("club") or "")),
\* in millionths: a rate of None and a rate of 0 both give 1
FilledClubsKey(r) ==
    <<IF r.participation_rate = None \/ r.participation_rate = 0
      THEN 1000000 ELSE 0 - r.participation_rate,
      ClubRank(r.club)>>

\* fill_missing_clubs(clubs_from_mps(mps_rows))
FillMissingClubs(ctx, clubs_rows) ==
    LET out == clubs_rows \cup MissingClubRows(ctx, clubs_rows)
    IN CHOOSE t \in Orderings(out, [r \in out |-> FilledClubsKey(r)]) : TRUE

\* build_variant: the overviews it may return
BuildVariant(ctx, mp_votes, window, absence_kind, generated_at_utc) ==
    LET current_by_id ==
            CurrentClubForVotes(FilterInvalidClubVotes(mp_votes, ctx.invalid_club_vote_ids),
                                ctx.nulls_first)
    IN {[term_id |-> ctx.term_id,
         generated_at_utc |-> generated_at_utc,
         window |-> window,
         absence |-> [kind |-> absence_kind, absent_codes |-> AbsentCodes(absence_kind)],
         club_attribution |-> "current",
         mps |-> mps,
         clubs |-> FillMissingClubs(ctx, ClubsFromMps(ctx, RowsOf(mps)))] :
        mps \in MpsFromVotes(ctx, mp_votes, AbsentCodes(absence_kind), current_by_id)}

\* latest: the timestamp of the first row of term_votes_df
LatestUtc(ctx) ==
    IF ctx.term_votes = {} THEN None
    ELSE FirstDescending(ctx.term_votes, ctx.nulls_first).vote_datetime_utc

\* whether the rolling window has bounds
HasWindow(ctx) == LatestUtc(ctx) # None /\ ctx.term_mp_votes # {}

\* from_utc = to_utc - timedelta(days=180)
FromUtc(to_utc) == to_utc - WindowDays * 24 * 60

\* the rows with vote_datetime_utc >= from_str (a null timestamp fails the test)
InWindow(rows, from_utc) ==
    {r \in rows : r.vote_datetime_utc # None /\ r.vote_datetime_utc >= from_utc}

\* window_full and window_meta
WindowFull == [kind |-> "full"]
WindowMeta(ctx) ==
    IF HasWindow(ctx)
    THEN [kind |-> "rolling", days |-> WindowDays,
          from_utc |-> FromUtc(LatestUtc(ctx)), to_utc |-> LatestUtc(ctx),
          votes_in_window |->
              Cardinality(InWindow(ctx.term_votes, FromUtc(LatestUtc(ctx))))]
    ELSE [kind |-> "rolling", days |-> WindowDays,
          from_utc |-> None, to_utc |-> None, votes_in_window |-> 0]

\* window_mp_votes_df
WindowMpVotes(ctx) ==
    IF HasWindow(ctx) THEN InWindow(ctx.term_mp_votes, FromUtc(LatestUtc(ctx))) ELSE {}

\* the files of the four variants
VariantFiles ==
    {"overview.full.abs0n.json", "overview.full.abs0.json",
     "overview.180d.abs0n.json", "overview.180d.abs0.json"}

\* the window and the absence kind of a variant file
IsFull(name) == name \in {"overview.full.abs0n.json", "overview.full.abs0.json"}
KindOf(name) ==
    IF name \in {"overview.full.abs0n.json", "overview.180d.abs0n.json"}
    THEN "abs0n" ELSE "abs0"

\* the overviews build_variant may return for a variant file
VariantChoices(ctx, name, generated_at_utc) ==
    BuildVariant(ctx,
                 IF IsFull(name) THEN ctx.term_mp_votes ELSE WindowMpVotes(ctx),
                 IF IsFull(name) THEN WindowFull ELSE WindowMeta(ctx),
                 KindOf(name), generated_at_utc)

AliasOf_Abs0(name) ==
    CASE name = "overview.full.json" -> "overview.full.abs0n.json"
      [] name = "overview.180d.json" -> "overview.180d.abs0n.json"
      [] name = "overview.json" -> "overview.full.abs0.json"

\* the variant each back-compat file is written from
AliasOf(name) ==
    CASE name = "overview.full.json" -> "overview.full.abs0n.json"
      [] name = "overview.180d.json" -> "overview.180d.abs0n.json"
      [] name = "overview.json" -> "overview.full.abs0n.json"

AliasFiles == {"overview.full.json", "overview.180d.json", "overview.json"}

\* the files build_site_data writes under term/<term_id>/, given the four
\* variants it built
TermFiles(ctx, variants) ==
    [name \in VariantFiles \cup AliasFiles \cup {"votes.json"} |->
        IF name \in VariantFiles THEN variants[name]
        ELSE IF name \in AliasFiles THEN variants[AliasOf(name)]
        ELSE SortDescending(ctx.term_votes, ctx.nulls_first)]

\* the directory after those writes
WriteTerm(dir, term_id, files) ==
    [q \in DOMAIN dir \cup {SiteFile(term_id, name) : name \in DOMAIN files} |->
        IF q.term = term_id /\ q.name \in DOMAIN files THEN files[q.name] ELSE dir[q]]

\* term/<term_id>/vote/<vote_id>.json
VotePageName(vote_id) == IF vote_id = 1 THEN "vote/1.json" ELSE "vote/2.json"
VotePageNames == {VotePageName(v) : v \in {1, 2}}

\* the club breakdown of a vote page: per club of the rows of the vote the
\* rows, the absent ones and the present ones, by presence_rate and club
VotePageClubs(shard) ==
    LET clubs == {LET g == {r \in shard : r.club = c}
                      present == CountOf(g, LAMBDA r : r.is_present)
                  IN [club |-> c, total |-> Cardinality(g),
                      absent |-> CountOf(g, LAMBDA r : r.vote_code \in {"0", "N"}),
                      present |-> present,
                      presence_rate |-> Round6(present, Cardinality(g))] :
                  c \in {r.club : r \in shard}}
    IN CHOOSE t \in Orderings(clubs, [r \in clubs |->
                                        <<0 - r.presence_rate, ClubRank(r.club)>>]) : TRUE

\* _write_vote_pages: a payload per vote of the member votes of the term (the
\* member rows without their order)
VotePages(ctx) ==
    [name \in {VotePageName(r.vote_id) : r \in ctx.term_mp_votes} |->
        LET shard == {r \in ctx.term_mp_votes : VotePageName(r.vote_id) = name}
            vote_id == (CHOOSE r \in shard : TRUE).vote_id
        IN [term_id |-> ctx.term_id,
            vote |-> IF \E v \in ctx.term_votes : v.vote_id = vote_id
                     THEN CHOOSE v \in ctx.term_votes : v.vote_id = vote_id
                     ELSE [vote_id |-> vote_id, term_id |-> ctx.term_id],
            clubs |-> IF vote_id \in ctx.invalid_club_vote_ids
                      THEN <<>> ELSE VotePageClubs(shard),
            mps |-> {[mp_id |-> r.mp_id, mp_name |-> r.mp_name, club |-> r.club,
                      vote_code |-> r.vote_code] : r \in shard}]]

\* the files of a pass of the loop over the terms
AllTermFiles(ctx, variants, include_vote_pages) ==
    LET files == TermFiles(ctx, variants)
        pages == IF include_vote_pages THEN VotePages(ctx) ELSE <<>>
    IN [name \in DOMAIN files \cup DOMAIN pages |->
           IF name \in DOMAIN files THEN files[name] ELSE pages[name]]

----------------------------------------------------------------------------
(* build_site_data, a term at a time *)

\* the calls of build_site_data that are started
MaxBuilds == 2

siteRest == <<storeVars, collectVars, indexVars, backfillVars, processVars>>

\* the call raises: FileNotFoundError or ValueError
SiteRaised == [siteRun EXCEPT !.pc = "idle", !.todo = <<>>, !.terms = NoTerms,
                              !.started = IF siteRun.pc = "idle" THEN @ + 1 ELSE @,
                              !.raised = @ + 1]

\* the checks of the inputs, the terms, manifest.json and generated_at_utc
SiteStartWith(terms_arg, include_vote_pages) ==
    /\ siteRun.pc = "idle" /\ proc.pc = "idle"
    /\ siteRun.started < MaxBuilds
    /\ IF MissingInputs(outDir) # {} \/ UnreadableInputs(outDir) # {}
       THEN siteRun' = SiteRaised /\ UNCHANGED siteDir
       ELSE LET terms == SelectedTerms(terms_arg,
                             DiscoveredTerms(outDir[MpAttendanceJsonl].rows))
            IN IF terms = <<>>
               THEN siteRun' = SiteRaised /\ UNCHANGED siteDir
               ELSE \E now \in Times :
                     /\ siteDir' = WriteSite(siteDir, ManifestJson,
                                             Manifest(outDir[MetadataJson].rows[1], terms))
                     /\ siteRun' = [siteRun EXCEPT
                                        !.pc = "terms", !.started = @ + 1,
                                        !.terms = terms_arg, !.todo = terms,
                                        !.include_vote_pages = include_vote_pages,
                                        !.generated_at_utc = now]
    /\ UNCHANGED siteRest

\* build_site_data(processed_dir, out_dir), as the command line calls it
SiteStart == SiteStartWith(NoTerms, FALSE)

\* build_site_data(processed_dir, out_dir, terms=[...])
SiteStartTerms == \E l \in TermLists : SiteStartWith([given |-> TRUE, list |-> l], FALSE)

\* build_site_data(processed_dir, out_dir, include_vote_pages=True)
SiteStartPages == SiteStartWith(NoTerms, TRUE)

\* one pass of the loop over the terms: the variants of the term, its eight
\* files and, when asked for, its vote pages; the call returns after the last
\* term (include_mp_pages is left at its default)
SiteWriteTerm ==
    /\ siteRun.pc = "terms"
    /\ IF LoadMpVotesRaises(outDir, Head(siteRun.todo))
       THEN siteRun' = SiteRaised /\ UNCHANGED siteDir
       ELSE LET term_id == Head(siteRun.todo)
                ctx == TermContext(outDir, term_id, siteRun.nulls_first)
            IN \E full_abs0n \in VariantChoices(ctx, "overview.full.abs0n.json",
                                                 siteRun.generated_at_utc) :
               \E full_abs0 \in VariantChoices(ctx, "overview.full.abs0.json",
                                                siteRun.generated_at_utc) :
               \E w180_abs0n \in VariantChoices(ctx, "overview.180d.abs0n.json",
                                                 siteRun.generated_at_utc) :
               \E w180_abs0 \in VariantChoices(ctx, "overview.180d.abs0.json",
                                                siteRun.generated_at_utc) :
                /\ siteDir' =
                      WriteTerm(siteDir, term_id,
                                AllTermFiles(ctx,
                                    [name \in VariantFiles |->
                                        CASE name = "overview.full.abs0n.json" -> full_abs0n
                                          [] name = "overview.full.abs0.json" -> full_abs0
                                          [] name = "overview.180d.abs0n.json" -> w180_abs0n
                                          [] OTHER -> w180_abs0],
                                    siteRun.include_vote_pages))
                /\ siteRun' =
                      IF Tail(siteRun.todo) = <<>>
                      THEN [siteRun EXCEPT !.pc = "idle", !.todo = <<>>, !.terms = NoTerms,
                                           !.done = Append(@, [processed |-> outDir,
                                                               terms |-> siteRun.terms,
                                                               out |-> siteDir'])]
                      ELSE [siteRun EXCEPT !.todo = Tail(@)]
    /\ UNCHANGED siteRest

----------------------------------------------------------------------------
(* SpecSite: process_votes on a raw directory that stays as it is, and *)
(* build_site_data on its outputs                                      *)

\* the date/time texts of votes 1 and 2: vote 1 is outside the window of
\* vote 2, on its first minute, or undated; or vote 2 is undated; or one of
\* them does not match the pattern or names no day or no time of day
SiteDates ==
    {<<"15. 6. 2025 10:06", "12. 12. 2025 10:06">>,
     <<"15. 6. 2025 11:06", "12. 12. 2025 10:06">>,
     <<NullStr, "12. 12. 2025 10:06">>,
     <<"15. 6. 2025 10:06", NullStr>>,
     <<"n/a", "12. 12. 2025 10:06">>,
     <<"31. 2. 2025 10:06", "12. 12. 2025 10:06">>,
     <<"15. 6. 2025 10:06", "1. 12. 2025 25:00">>}

\* the raw directories: vote 1 of term 9 with the members 10 and 11, both of
\* Club A or both of no club, vote 2 of term 9 or 8 with member 10, who may
\* have changed club
SiteRawDirs ==
    {[v \in {1, 2} |->
        IF v = 1
        THEN RawVote(1, 9, 43, c.d[1],
                     <<RawMpVote(10, "Alpha", c.k1, c.c1),
                       RawMpVote(11, "Beta", c.k1, "?")>>)
        ELSE RawVote(2, c.t2, 44, c.d[2], <<RawMpVote(10, "Alpha", c.k2, c.c3)>>)] :
     c \in [d : SiteDates,
            k1 : {"Club A", NoClubRaw},
            c1 : VoteCodes,
            t2 : {9, 8},
            k2 : {"Club A", "Club B"},
            c3 : {"P", "N"}]}

\* the processed directory is made once, before the site is built from it
SiteProcLoad == siteRun.started = 0 /\ procLog.started = 0 /\ ProcLoad

SiteInit ==
    /\ StoreInit /\ CollectIdle /\ IndexIdle /\ BackfillIdle
    /\ rawDir \in SiteRawDirs
    /\ outDir = <<>>
    /\ proc = NoProc
    /\ procLog = NoProcLog
    /\ siteDir = <<>>
    /\ siteRun \in {[NoSite EXCEPT !.nulls_first = b] : b \in BOOLEAN}

SiteNext ==
    \/ SiteProcLoad
    \/ ProcUnlinkLegacy
    \/ ProcWriteVotes
    \/ ProcPartition
    \/ ProcWriteShard
    \/ ProcWriteShardIndex
    \/ ProcWriteMpAttendance
    \/ ProcWriteClubAttendance
    \/ ProcWriteMetadata
    \/ SiteStart
    \/ SiteWriteTerm

SpecSite == SiteInit /\ [][SiteNext]_vars

\* SpecSiteTerms: the builds of SpecSite and the builds with explicit terms,
\* on the raw directories whose vote 2 is of term 9 or of term 8
TermsRawDirs ==
    {d \in SiteRawDirs :
        /\ d[1].date_text = "15. 6. 2025 10:06" /\ d[2].date_text = "12. 12. 2025 10:06"
        /\ d[1].mp_votes[1].vote_code = "Z" /\ d[1].mp_votes[1].club = "Club A"
        /\ d[2].mp_votes[1].club = "Club A" /\ d[2].mp_votes[1].vote_code = "P"}

SiteTermsInit ==
    /\ SiteInit
    /\ rawDir \in TermsRawDirs

SiteTermsNext ==
    \/ SiteProcLoad
    \/ ProcUnlinkLegacy
    \/ ProcWriteVotes
    \/ ProcPartition
    \/ ProcWriteShard
    \/ ProcWriteShardIndex
    \/ ProcWriteMpAttendance
    \/ ProcWriteClubAttendance
    \/ ProcWriteMetadata
    \/ SiteStart
    \/ SiteStartTerms
    \/ SiteWriteTerm

SpecSiteTerms == SiteTermsInit /\ [][SiteTermsNext]_vars

\* SpecSitePages: the builds of SpecSite and the builds with vote pages, on
\* the raw directories whose vote 1 is before the window of vote 2 or on its
\* first minute and whose member 10 votes for, is absent or does not vote
PagesRawDirs ==
    {d \in SiteRawDirs :
        /\ d[1].date_text \in {"15. 6. 2025 10:06", "15. 6. 2025 11:06"}
        /\ d[2].date_text = "12. 12. 2025 10:06"
        /\ d[1].mp_votes[1].vote_code \in {"Z", "0", "N"}
        /\ d[2].mp_votes[1].vote_code = "P"}

SitePagesInit ==
    /\ SiteInit
    /\ rawDir \in PagesRawDirs

SitePagesNext ==
    \/ SiteProcLoad
    \/ ProcUnlinkLegacy
    \/ ProcWriteVotes
    \/ ProcPartition
    \/ ProcWriteShard
    \/ ProcWriteShardIndex
    \/ ProcWriteMpAttendance
    \/ ProcWriteClubAttendance
    \/ ProcWriteMetadata
    \/ SiteStart
    \/ SiteStartPages
    \/ SiteWriteTerm

SpecSitePages == SitePagesInit /\ [][SitePagesNext]_vars

\* SpecSiteInputs: calls of process_votes that return or are killed, and
\* between them builds of the site from what they left
InputsProcLoad == siteRun.pc = "idle" /\ ProcLoad

SiteInputsNext ==
    \/ InputsProcLoad
    \/ ProcUnlinkLegacy
    \/ ProcWriteVotes
    \/ ProcPartition
    \/ ProcWriteShard
    \/ ProcWriteShardIndex
    \/ ProcWriteMpAttendance
    \/ ProcWriteClubAttendance
    \/ ProcWriteMetadata
    \/ ProcKilled
    \/ SiteStart
    \/ SiteWriteTerm

SpecSiteInputs == SiteTermsInit /\ [][SiteInputsNext]_vars

\* the member-vote rows of the shards of a processed directory
MemberVoteRows(dir) == UNION {RowsOf(dir[q].rows) : q \in ShardFilesOf(dir)}

\* C12: every member-vote row process_votes writes, whatever its vote_code
\* (Z, P, ?, N, 0 or null), has is_present true exactly when the code is not
\* in the absence set {"0", "N"} and is_voted true exactly when the code is
\* one of Z, P, ?
C12_PresenceFlags ==
    \A r \in MemberVoteRows(outDir) :
        /\ r.is_present <=> r.vote_code \notin {"0", "N"}
        /\ r.is_voted <=> r.vote_code \in {"Z", "P", "?"}

\* the overview files of the site directory, and the terms that have them
OverviewFiles == VariantFiles \cup AliasFiles
BuiltTerms == {q.term : q \in {p \in DOMAIN siteDir : p.name \in OverviewFiles}}

\* the raw member votes an overview counts: those of its term, and inside
\* its window when it has one
OverviewSource(o) ==
    LET rows == {r \in MpVoteRows(rawDir) : r.term_id = o.term_id}
    IN IF o.window.kind = "full" THEN rows
       ELSE IF o.window.from_utc = None THEN {}
       ELSE {r \in rows : r.vote_datetime_utc # None
                           /\ r.vote_datetime_utc >= o.window.from_utc}

\* the rows of a member among rows
RowsOfMember(rows, m) == {r \in rows : r.mp_id = m.mp_id /\ r.mp_name = m.mp_name}

\* the two absence variants of a term and window
VariantPairs ==
    {<<"overview.full.abs0.json", "overview.full.abs0n.json">>,
     <<"overview.180d.abs0.json", "overview.180d.abs0n.json">>}

\* C13: for every term, window and member the abs0 overview counts as absent
\* exactly the member's rows with code "0", the abs0n overview exactly those
\* with code "0" or "N", total_votes is the same in both, and the difference
\* of the two absent counts is the member's not_voting_count
C13_AbsenceVariantsDistinct ==
    \A t \in BuiltTerms : \A pair \in VariantPairs :
        LET abs0 == siteDir[SiteFile(t, pair[1])]
            abs0n == siteDir[SiteFile(t, pair[2])]
            src == OverviewSource(abs0)
        IN /\ OverviewSource(abs0n) = src
           /\ {<<m.mp_id, m.mp_name>> : m \in RowsOf(abs0.mps)}
                = {<<r.mp_id, r.mp_name>> : r \in src}
           /\ {<<m.mp_id, m.mp_name>> : m \in RowsOf(abs0n.mps)}
                = {<<r.mp_id, r.mp_name>> : r \in src}
           /\ \A m0 \in RowsOf(abs0.mps) : \A mn \in RowsOf(abs0n.mps) :
                (m0.mp_id = mn.mp_id /\ m0.mp_name = mn.mp_name) =>
                    /\ m0.absent_count
                         = Cardinality({r \in RowsOfMember(src, m0) : r.vote_code = "0"})
                    /\ mn.absent_count
                         = Cardinality({r \in RowsOfMember(src, m0) :
                                          r.vote_code = "0" \/ r.vote_code = "N"})
                    /\ m0.total_votes = mn.total_votes
                    /\ m0.total_votes = Cardinality(RowsOfMember(src, m0))
                    /\ mn.absent_count - m0.absent_count = m0.not_voting_count
                    /\ mn.not_voting_count = m0.not_voting_count

\* a rolling window that leaves a vote of the term out, with a member who
\* was absent once and not voting once: 1 absence in abs0, 2 in abs0n
C13_Witness ==
    \E t \in BuiltTerms :
        LET abs0 == siteDir[SiteFile(t, "overview.full.abs0.json")]
            abs0n == siteDir[SiteFile(t, "overview.full.abs0n.json")]
            w0 == siteDir[SiteFile(t, "overview.180d.abs0.json")]
            wn == siteDir[SiteFile(t, "overview.180d.abs0n.json")]
        IN /\ \E m0 \in RowsOf(abs0.mps) : \E mn \in RowsOf(abs0n.mps) :
                /\ m0.mp_id = mn.mp_id
                /\ m0.absent_count = 1 /\ mn.absent_count = 2 /\ m0.not_voting_count = 1
           /\ \E m0 \in RowsOf(w0.mps) : \E mn \in RowsOf(wn.mps) :
                /\ m0.mp_id = mn.mp_id
                /\ m0.absent_count = 0 /\ mn.absent_count = 1 /\ m0.total_votes = 1

\* present_count / total_votes rounded to 6 places, in millionths: the rate
\* is within half a millionth of the quotient and between 0 and 1; no rate
\* (None) when there are no votes
RateOk(r) ==
    IF r.total_votes = 0 THEN r.participation_rate = None
    ELSE /\ r.participation_rate \in 0..1000000
         /\ 2 * (r.participation_rate * r.total_votes - 1000000 * r.present_count)
               <= r.total_votes
         /\ 2 * (1000000 * r.present_count - r.participation_rate * r.total_votes)
               <= r.total_votes

\* the attendance rows of the processed tables and of the site overviews
ProcessedAttendanceRows ==
    UNION {RowsOf(outDir[q].rows) :
            q \in {MpAttendanceJsonl, ClubAttendanceJsonl} \cap DOMAIN outDir}
SiteAttendanceRows ==
    UNION {RowsOf(siteDir[q].mps) \cup RowsOf(siteDir[q].clubs) :
            q \in {p \in DOMAIN siteDir : p.name \in OverviewFiles}}

\* C14: in every attendance row, of a member or of a club, in the processed
\* tables and in every site overview, participation_rate is present_count /
\* total_votes rounded to 6 decimal places and lies between 0 and 1 when
\* total_votes > 0, and is null when total_votes = 0
C14_ParticipationRate ==
    \A r \in ProcessedAttendanceRows \cup SiteAttendanceRows : RateOk(r)

\* a club with 2 of 3 rows present (0.666667) in the processed table and in
\* an overview, and a club without votes in a window (no rate)
C14_Witness ==
    /\ \E r \in ProcessedAttendanceRows :
          r.total_votes = 3 /\ r.present_count = 2 /\ r.participation_rate = 666667
    /\ \E r \in SiteAttendanceRows :
          r.total_votes = 3 /\ r.present_count = 2 /\ r.participation_rate = 666667
    /\ \E r \in SiteAttendanceRows : r.total_votes = 0 /\ r.participation_rate = None

\* C19: for every term overview.json and overview.full.json have the content
\* of overview.full.abs0n.json and overview.180d.json has the content of
\* overview.180d.abs0n.json; no alias holds an abs0 variant
C19_AliasesAreAbs0n ==
    \A t \in BuiltTerms :
        /\ siteDir[SiteFile(t, "overview.json")]
             = siteDir[SiteFile(t, "overview.full.abs0n.json")]
        /\ siteDir[SiteFile(t, "overview.full.json")]
             = siteDir[SiteFile(t, "overview.full.abs0n.json")]
        /\ siteDir[SiteFile(t, "overview.180d.json")]
             = siteDir[SiteFile(t, "overview.180d.abs0n.json")]
        /\ \A name \in AliasFiles : siteDir[SiteFile(t, name)].absence.kind = "abs0n"

\* a built term whose abs0 and abs0n variants count a member differently
C19_Witness ==
    \E t \in BuiltTerms :
        /\ siteRun.pc = "idle" /\ siteRun.done # <<>>
        /\ siteDir[SiteFile(t, "overview.full.abs0.json")].mps
             # siteDir[SiteFile(t, "overview.full.abs0n.json")].mps
        /\ siteDir[SiteFile(t, "overview.180d.abs0.json")].mps
             # siteDir[SiteFile(t, "overview.180d.abs0n.json")].mps

\* the timestamps of the votes of a term in the raw directory
DatedVotes(t) ==
    {r.vote_datetime_utc : r \in {v \in VoteRows(rawDir) : v.term_id = t}} \ {None}

\* C20: two calls of build_site_data on the same processed directory, with
\* the same terms, leave the same payloads, and the rolling window of a term runs from the latest
\* vote timestamp of the term minus 180 days to that timestamp
C20_SiteDataFunctionOfInput ==
    /\ \A i \in DOMAIN siteRun.done : \A j \in DOMAIN siteRun.done :
          /\ siteRun.done[i].processed = siteRun.done[j].processed
          /\ siteRun.done[i].terms = siteRun.done[j].terms
            => siteRun.done[i].out = siteRun.done[j].out
    /\ \A t \in BuiltTerms :
          DatedVotes(t) # {} =>
            \A name \in {"overview.180d.abs0n.json", "overview.180d.abs0.json",
                          "overview.180d.json"} :
                /\ siteDir[SiteFile(t, name)].window.to_utc = Max(DatedVotes(t))
                /\ siteDir[SiteFile(t, name)].window.from_utc
                     = Max(DatedVotes(t)) - 180 * 24 * 60

\* C30: for every (term_id, club) of club_attendance, present_count is the
\* number of the club's member-vote rows of the term whose is_present is
\* true, whatever the vote codes (Z, P, ?, N, 0 or null)
C30_ClubPresenceAgrees ==
    \A i \in DOMAIN procLog.done :
        LET dir == procLog.done[i].out
        IN \A c \in RowsOf(dir[ClubAttendanceJsonl].rows) :
            c.present_count
              = Cardinality({r \in MemberVoteRows(dir) :
                               r.term_id = c.term_id /\ r.club = c.club /\ r.is_present})

\* the texts that are absent, empty, outside the pattern, or name no calendar
\* day or no time of day
UnparsableTexts == {NullStr, "", "n/a", "31. 2. 2025 10:06", "1. 12. 2025 25:00"}

\* C26: whatever the date/time texts of the raw votes, process_votes ends
\* without an error, and a vote whose text is absent, empty, outside the
\* pattern or no valid date and time has no timestamp
C26_BadDateGivesNull ==
    /\ procLog.raised = 0
    /\ \A i \in DOMAIN procLog.done :
          \A payload \in VotePayloads(procLog.done[i].raw) :
              payload.date_text \in UnparsableTexts =>
                  \E r \in RowsOf(procLog.done[i].out[VotesJsonl].rows) :
                      r.vote_id = payload.vote_id /\ r.vote_datetime_utc = None

----------------------------------------------------------------------------
(* SpecClubKeys: build_club_keys on the sets of club labels *)

\* the labels: the two internal ones, three whose slugs meet ("a-b" twice and
\* "a-b-2"), two plain ones and two whose slugs meet the reserved "unknown"
ClubLabels == {ClubOrder[i] : i \in 1..Len(ClubOrder)}

\* build_club_keys(clubs) is called and returns its mapping
ClubKeysBuilt ==
    /\ siteRun = NoSite
    /\ \E clubs \in SUBSET ClubLabels :
         siteRun' = [pc |-> "club_keys", clubs |-> clubs, mapping |-> BuildClubKeys(clubs)]
    /\ UNCHANGED <<siteDir, siteRest>>

ClubKeysNext ==
    \/ ClubKeysBuilt

SpecClubKeys == Init /\ [][ClubKeysNext]_vars

\* C23: build_club_keys gives different labels different keys, whatever the
\* set of labels; "(no_club)" gets "no-club", "(unknown)" gets "unknown",
\* and no other label gets one of these two keys
C23_ClubKeysDistinct ==
    siteRun.pc = "club_keys" =>
        /\ \A c \in siteRun.clubs : \A d \in siteRun.clubs :
              c # d => siteRun.mapping[c] # siteRun.mapping[d]
        /\ (NoClubInternal \in siteRun.clubs
              => siteRun.mapping[NoClubInternal] = <<"no-club">>)
        /\ (UnknownClubInternal \in siteRun.clubs
              => siteRun.mapping[UnknownClubInternal] = <<"unknown">>)
        /\ \A c \in siteRun.clubs \ {NoClubInternal, UnknownClubInternal} :
              siteRun.mapping[c] \notin {<<"no-club">>, <<"unknown">>}

\* C22: after every start of build_site_data that wrote the manifest, with
\* or without explicit terms, manifest.json lists terms in strictly
\* descending order, each one a term of mp_attendance, and default_term_id
\* is the largest of them
C22_ManifestTermsDescending ==
    ManifestJson \in DOMAIN siteDir =>
        LET manifest == siteDir[ManifestJson]
        IN /\ \A i \in DOMAIN manifest.terms : \A j \in DOMAIN manifest.terms :
                 i < j => manifest.terms[i] > manifest.terms[j]
           /\ \A i \in DOMAIN manifest.terms :
                 manifest.terms[i] \in DiscoveredTerms(outDir[MpAttendanceJsonl].rows)
           /\ manifest.terms # <<>>
           /\ \A i \in DOMAIN manifest.terms : manifest.default_term_id >= manifest.terms[i]
           /\ \E i \in DOMAIN manifest.terms : manifest.default_term_id = manifest.terms[i]

\* the club keys an overview lists
ClubKeysOf(o) == {o.clubs[n].club_key : n \in DOMAIN o.clubs}

\* C21: each of the four overview variants of a built term lists every club
\* of the term's rows of club_attendance exactly once, a club without
\* member rows in the variant with counts of 0 and no rate, and the four
\* variants list the same club keys
C21_StableClubList ==
    \A t \in BuiltTerms : \A name \in VariantFiles :
        LET o == siteDir[SiteFile(t, name)]
            labels == {c.club : c \in {r \in RowsOf(outDir[ClubAttendanceJsonl].rows) :
                                          r.term_id = t}}
        IN /\ \A l \in labels :
                 \E n \in DOMAIN o.clubs :
                    /\ o.clubs[n].club = l
                    /\ \A k \in DOMAIN o.clubs : o.clubs[k].club = l => k = n
                    /\ (\A mp \in RowsOf(o.mps) : mp.club # l)
                         => /\ o.clubs[n].total_votes = 0
                            /\ o.clubs[n].present_count = 0
                            /\ o.clubs[n].absent_count = 0
                            /\ o.clubs[n].voted_count = 0
                            /\ o.clubs[n].participation_rate = None
           /\ \A other \in VariantFiles :
                 ClubKeysOf(siteDir[SiteFile(t, other)]) = ClubKeysOf(o)

\* the votes of the raw directory all of whose member votes are of no club
\* or of an unknown one
NoClubVotes == InvalidClubVoteIds(MpVoteRows(rawDir))

\* the clubs of the member's rows of the term in the votes with a real club
RealClubsOf(t, mp_id) ==
    {r.club : r \in {x \in MpVoteRows(rawDir) :
                        x.term_id = t /\ x.mp_id = mp_id /\ x.vote_id \notin NoClubVotes}}

\* C28: a vote all of whose member votes are of "(no_club)" or "(unknown)"
\* gives no member a current or primary club in any overview variant (these
\* are clubs of the member's other votes, or "(unknown)" when there is none),
\* its vote page has an empty club breakdown, and its rows count in the
\* member's total_votes and absent_count
C28_NoClubVotesExcluded ==
    /\ \A t \in BuiltTerms : \A name \in VariantFiles :
          LET o == siteDir[SiteFile(t, name)]
          IN \A mp \in RowsOf(o.mps) :
               LET real == IF RealClubsOf(t, mp.mp_id) = {} THEN {UnknownClubInternal}
                           ELSE RealClubsOf(t, mp.mp_id)
                   mine == {r \in OverviewSource(o) :
                              r.mp_id = mp.mp_id /\ r.mp_name = mp.mp_name}
               IN /\ mp.current_club \in real
                  /\ mp.primary_club \in real
                  /\ mp.total_votes = Cardinality(mine)
                  /\ mp.absent_count
                       = Cardinality({r \in mine : r.vote_code \in o.absence.absent_codes})
    /\ \A p \in DOMAIN siteDir :
          p.name \in VotePageNames /\ siteDir[p].vote.vote_id \in NoClubVotes
            => siteDir[p].clubs = <<>>

\* a term is built with vote pages, one of them the page of a vote without a
\* real club in which member 10 took part, who has a vote of a real club in
\* the same term
C28_Witness ==
    \E p \in DOMAIN siteDir :
        /\ p.name \in VotePageNames /\ siteDir[p].vote.vote_id \in NoClubVotes
        /\ siteDir[p].clubs = <<>>
        /\ RealClubsOf(p.term, 10) # {}
        /\ \E mp \in RowsOf(siteDir[SiteFile(p.term, "overview.full.abs0n.json")].mps) :
              mp.mp_id = 10 /\ mp.total_votes = 2 /\ mp.absent_count = 1

\* the member's rows of the term in the votes with a real club
RealClubRows(t, mp_id) ==
    {r \in MpVoteRows(rawDir) :
        r.term_id = t /\ r.mp_id = mp_id /\ r.vote_id \notin NoClubVotes}

\* C25: for every built term and member with a vote of a real club,
\* current_club is the club of the member's most recent such vote by
\* (vote_datetime_utc, vote_id) (of the dated ones or, where the sort puts
\* the undated ones first, of the undated ones), the same in every overview
\* variant, and primary_club is the club of most of these votes, the smallest
\* label on a tie; every member row of every variant has both fields
C25_ClubAttribution ==
    \A t \in BuiltTerms : \A name \in VariantFiles :
        \A mp \in RowsOf(siteDir[SiteFile(t, name)].mps) :
            LET rows == RealClubRows(t, mp.mp_id)
                n == [c \in {r.club : r \in rows} |->
                         Cardinality({r \in rows : r.club = c})]
            IN rows # {} =>
                /\ \E r \in rows :
                     /\ r.club = mp.current_club
                     /\ \A x \in rows \ {r} :
                           (r.vote_datetime_utc = None) = (x.vote_datetime_utc = None)
                             => \/ r.vote_datetime_utc > x.vote_datetime_utc
                                \/ /\ r.vote_datetime_utc = x.vote_datetime_utc
                                   /\ r.vote_id > x.vote_id
                /\ \A other \in VariantFiles :
                     \A mo \in RowsOf(siteDir[SiteFile(t, other)].mps) :
                        mo.mp_id = mp.mp_id => mo.current_club = mp.current_club
                /\ mp.primary_club \in DOMAIN n
                /\ \A d \in DOMAIN n \ {mp.primary_club} :
                     \/ n[mp.primary_club] > n[d]
                     \/ n[mp.primary_club] = n[d] /\ ClubRank(mp.primary_club) < ClubRank(d)

\* term 9 is built and member 10 has a vote in Club A and a later one in
\* Club B: the current club is Club B and the primary club, on a tie, Club A
C25_Witness ==
    /\ 9 \in BuiltTerms
    /\ {r.club : r \in RealClubRows(9, 10)} = {"Club A", "Club B"}
    /\ \A name \in VariantFiles :
          \E mp \in RowsOf(siteDir[SiteFile(9, name)].mps) :
             mp.mp_id = 10 /\ mp.current_club = "Club B" /\ mp.primary_club = "Club A"

\* a required input of build_site_data is missing from the processed
\* directory
RequiredInputMissing(dir) ==
    \/ MissingInputs(dir) # {}
    \/ ShardIndexJson \notin DOMAIN dir /\ OutFile("mp_votes.jsonl") \notin DOMAIN dir

\* C29: a call of build_site_data that starts while metadata.json,
\* mp_attendance.jsonl, club_attendance.jsonl, votes.jsonl, or both the shard
\* index and mp_votes.jsonl are missing stops with an error and leaves the
\* output directory as it was
C29_MissingInputWritesNothing ==
    [][(/\ siteRun.pc = "idle"
        /\ siteRun'.started = siteRun.started + 1
        /\ RequiredInputMissing(outDir))
         => /\ siteDir' = siteDir
            /\ siteRun'.pc = "idle"
            /\ siteRun'.raised = siteRun.raised + 1]_vars

\* a vote_details run without force has closed with reason "finished" and
\* every id it asked for came back as an item
DetailsRunComplete ==
    /\ spider.name = "vote_details" /\ ~spider.force
    /\ phase = "closed" /\ last.op = "spider_closed" /\ last.reason = "finished"
    /\ IssuedIds \subseteq processed

\* C27: whatever runs were stopped or killed before it, a vote_details run
\* without force that finishes with every fetch answered leaves a raw file
\* for every vote id of the selected shards and has asked for no id whose raw
\* file was there when it started; no step of a run without force changes a
\* raw file that exists
C27_DetailsResumable ==
    /\ [](DetailsRunComplete =>
            /\ \A v \in SelectedIds : Exists(fs, VoteFile(v))
            /\ IssuedIds \cap hist.startFiles = {})
    /\ [][(spider.name = "vote_details" /\ ~spider.force /\ phase = "open")
            => \A v \in 1..MaxVoteId :
                 Exists(fs, VoteFile(v))
                   => Exists(fs', VoteFile(v)) /\ fs'[VoteFile(v)] = fs[VoteFile(v)]]_vars

\* a run completes that found a raw file of an earlier run, none of which had
\* finished (there was no _state.json when it opened), and fetched another
C27_Witness ==
    /\ DetailsRunComplete
    /\ runStart = <<>>
    /\ hist.startFiles # {}
    /\ IssuedIds # {}
    /\ SelectedIds = hist.startFiles \cup IssuedIds

====
